---------------------------- MODULE Spec2Model ----------------------------
(***************************************************************************)
(* Chimera: DNS wire codec (src/src/dns_packet.cpp), the client operations *)
(* that call it (src/src/client.cpp) and the steganographic encoder,       *)
(* decoder and extractor (src/src/steganography.cpp).                      *)
(*                                                                         *)
(* Bytes are integers 0..255; a std::string or std::vector<uint8_t> is a   *)
(* sequence of bytes (characters are their ASCII codes).  C++ indices are  *)
(* 0-based: ByteAt(data, i) is data[i].                                    *)
(***************************************************************************)
EXTENDS Integers, Sequences, FiniteSets, TLC

(***************************************************************************)
(* Bounds of the model (inputs that are enumerated).                       *)
(***************************************************************************)
\* longest question/answer section enumerated byte by byte
MaxBody == 3
\* largest QDCOUNT / ANCOUNT of the enumerated headers
MaxCount == 2
\* largest RDLENGTH of the crafted answer records
MaxRdlen == 4
\* longest crafted chain of compression pointers
MaxChain == 7
\* longest list whose every permutation is taken as an outcome of a shuffle
MaxShuffle == 2
\* longest payload enumerated byte by byte
MaxPayload == 2
\* largest max_fragments enumerated besides the default of 10
MaxFragments == 3
\* largest seed of the random generator
MaxSeed == 1
\* longest fragment list handed to the decoder, and its largest fragment id
MaxGiven == 2
MaxGivenId == 1

(***************************************************************************)
(* Generic helpers.                                                        *)
(***************************************************************************)
Min(a, b) == IF a < b THEN a ELSE b

\* data[i] of a C++ vector (0-based); 0 stands for a byte outside the vector
ByteAt(data, i) == IF i >= 0 /\ i < Len(data) THEN data[i + 1] ELSE 0

\* the n bytes data[from], ..., data[from + n - 1]
Bytes(data, from, n) == [k \in 1..n |-> ByteAt(data, from + k - 1)]

\* all sequences over S of length 0..n
SeqsUpTo(S, n) == UNION {[1..k -> S] : k \in 0..n}

\* all prefixes of a sequence
Prefixes(s) == {SubSeq(s, 1, k) : k \in 0..Len(s)}

RECURSIVE Concat(_)
Concat(ss) == IF ss = <<>> THEN <<>> ELSE Head(ss) \o Concat(Tail(ss))


\* the smallest element of a non-empty set of integers
SetMin(S) == CHOOSE x \in S : \A y \in S : x <= y

\* std::string::find(pat, from): the first 0-based position >= from at which
\* pat occurs in s, or -1 (npos)
Find(s, pat, from) ==
    LET cands == {i \in from..(Len(s) - Len(pat)) :
                      SubSeq(s, i + 1, i + Len(pat)) = pat}
    IN  IF cands = {} THEN -1 ELSE SetMin(cands)

\* s.substr(from): the characters from 0-based position from to the end
SubstrFrom(s, from) == SubSeq(s, from + 1, Len(s))

\* the sequence s without its i-th element (1-based)
RemoveAt(s, i) == SubSeq(s, 1, i - 1) \o SubSeq(s, i + 1, Len(s))

(***************************************************************************)
(* include/chimera/dns_packet.hpp: record types and wire constants.        *)
(***************************************************************************)
TypeA == 1
TypeNS == 2
TypeCNAME == 5
TypeMX == 15
TypeTXT == 16
TypeAAAA == 28
ClassIN == 1
\* the reserved fragment id of a decoy fragment, 0xFFFFFFFF.  A uint32_t is
\* held as its 32-bit pattern read as a two's-complement integer (the
\* TLC's integers are 32 bits wide), so 0xFFFFFFFF is -1 and values are
\* compared with ULess
NoiseId == -1

\* a < b for two uint32_t values
ULess(a, b) == IF (a < 0) = (b < 0) THEN a < b ELSE b < 0
\* '.' and '='
Dot == 46
EqualsSign == 61

\* "frag=" and "v=spf1"
StrFrag == <<102, 114, 97, 103, 61>>
StrSpf1 == <<118, 61, 115, 112, 102, 49>>

(***************************************************************************)
(* dns_packet.cpp: names on the wire.                                      *)
(***************************************************************************)
\* the longest label write_domain_name accepts
MaxLabel == 63
\* the shortest buffer parse_response accepts
HeaderSize == 12
\* read_domain_name: size_t max_jumps = 5
max_jumps == 5

\* split_domain: the non-empty dot-separated labels of a name, in order.  A
\* label starts at every character that is not a dot and follows a dot or
\* the start, and runs to the character before the next dot or the end.
split_domain(domain) ==
    LET n == Len(domain)
        starts == {i \in 1..n : domain[i] # Dot /\ (i = 1 \/ domain[i - 1] = Dot)}
        EndOf(i) == SetMin({j \in i..n : j = n \/ domain[j + 1] = Dot})
        Nth(k) == CHOOSE i \in starts : Cardinality({j \in starts : j < i}) = k - 1
    IN  [k \in 1..Cardinality(starts) |-> SubSeq(domain, Nth(k), EndOf(Nth(k)))]

\* the longest name validate_domain_name accepts, and the two characters it
\* accepts besides letters and digits
MaxName == 253
Hyphen == 45
Underscore == 95

\* std::isalnum in the "C" locale, for a character code below 128
IsAlnum(c) == c \in (48..57) \cup (65..90) \cup (97..122)

\* validate_domain_name
validate_domain_name(domain) ==
    IF domain = <<>> \/ Len(domain) > MaxName THEN FALSE
    ELSE LET labels == split_domain(domain) IN
         \A k \in DOMAIN labels :
             /\ ~(labels[k] = <<>> \/ Len(labels[k]) > MaxLabel)
             /\ \A j \in DOMAIN labels[k] :
                    ~(~IsAlnum(labels[k][j]) /\ labels[k][j] # Hyphen
                      /\ labels[k][j] # Underscore)

\* a label loop that accepts a label of 64 bytes
RECURSIVE WriteLabelsUpTo64(_, _)
WriteLabelsUpTo64(labels, packet) ==
    IF labels = <<>> THEN [ok |-> TRUE, packet |-> Append(packet, 0)]
    ELSE LET label == Head(labels) IN
         IF label = <<>> THEN WriteLabelsUpTo64(Tail(labels), packet)
         ELSE IF Len(label) > MaxLabel + 1
              THEN [ok |-> FALSE, packet |-> packet]
              ELSE WriteLabelsUpTo64(Tail(labels),
                                     packet \o <<Len(label)>> \o label)

RECURSIVE WriteLabels(_, _)
WriteLabels(labels, packet) ==
    IF labels = <<>> THEN [ok |-> TRUE, packet |-> Append(packet, 0)]
    ELSE LET label == Head(labels) IN
         IF label = <<>> THEN WriteLabels(Tail(labels), packet)
         ELSE IF Len(label) > MaxLabel
              THEN [ok |-> FALSE, packet |-> packet]
              ELSE WriteLabels(Tail(labels),
                               packet \o <<Len(label)>> \o label)

\* write_domain_name: ok = FALSE stands for the runtime_error it throws
write_domain_name(packet, name) ==
    IF name = <<>> THEN [ok |-> TRUE, packet |-> Append(packet, 0)]
    ELSE WriteLabels(split_domain(name), packet)

\* write_uint16: big-endian
write_uint16(packet, value) ==
    packet \o <<(value \div 256) % 256, value % 256>>

\* a write_txt_data that writes the bytes without their length
write_txt_data_raw(packet, data) ==
    IF Len(data) > 255 THEN [ok |-> FALSE, packet |-> packet]
    ELSE [ok |-> TRUE, packet |-> packet \o data]

\* write_txt_data: one length byte and the bytes; throws above 255 bytes
write_txt_data(packet, data) ==
    IF Len(data) > 255 THEN [ok |-> FALSE, packet |-> packet]
    ELSE [ok |-> TRUE, packet |-> packet \o <<Len(data)>> \o data]

\* build_query with transaction id `id` (gen() & 0xFFFF); ok = FALSE stands
\* for the exception it rethrows
build_query(q, payload, id) ==
    LET h == write_uint16(write_uint16(write_uint16(write_uint16(
               write_uint16(write_uint16(<<>>, id), 256), 1), 0), 0), 0)
        n == write_domain_name(h, q.name)
    IN  IF ~n.ok THEN [ok |-> FALSE, packet |-> <<>>]
        ELSE LET qq == write_uint16(write_uint16(n.packet, q.type), q.cls) IN
             IF payload # <<>> /\ q.type = TypeTXT
             THEN LET t == write_txt_data(qq, payload) IN
                  IF t.ok THEN t ELSE [ok |-> FALSE, packet |-> <<>>]
             ELSE [ok |-> TRUE, packet |-> qq]

\* (len & 0xC0) == 0xC0
IsPointer(len) == len \div 64 = 3

\* ((len & 0x3F) << 8) | data[offset + 1]
PointerTarget(len, low) == (len % 64) * 256 + low

\* jumps++ without counting
NextJumpsStuck(jumps) == jumps

\* jumps++
NextJumps(jumps) == jumps + 1

\* if (jumps > max_jumps) throw
TooManyJumps(jumps) == jumps > max_jumps

\* the bound check before the second byte of a pointer is read
PointerInBounds(data, offset) == ~(offset + 1 >= Len(data))

\* the bound check before a label's bytes are read (offset is past the
\* length byte)
LabelInBounds(data, offset, len) == ~(offset + len > Len(data))

\* the locals of read_domain_name on entry
ReadNameBegin(at) ==
    [offset |-> at, original_offset |-> at, jumped |-> FALSE,
     jump_offset |-> 0, jumps |-> 0, out_name |-> <<>>]

\* one iteration of the while (true) loop of read_domain_name on its locals
\* f: kind is "throw", "break" or "continue"; reads are the indices of data
\* the iteration reads
ReadNameIter(data, f) ==
    IF f.offset >= Len(data)
    THEN [kind |-> "throw", what |-> "DNS name reading exceeds bounds",
          f |-> f, reads |-> {}]
    ELSE LET len == ByteAt(data, f.offset) IN
      IF len = 0
      THEN [kind |-> "break", what |-> "",
            f |-> [f EXCEPT !.offset = @ + 1], reads |-> {f.offset}]
      ELSE IF IsPointer(len)
      THEN IF ~PointerInBounds(data, f.offset)
           THEN [kind |-> "throw", what |-> "DNS pointer exceeds bounds",
                 f |-> f, reads |-> {f.offset}]
           ELSE LET pointer == PointerTarget(len, ByteAt(data, f.offset + 1))
                    g == [f EXCEPT
                            !.jump_offset = IF f.jumped THEN @ ELSE f.offset + 2,
                            !.offset = pointer,
                            !.jumped = TRUE,
                            !.jumps = NextJumps(@)]
                IN  [kind |-> IF TooManyJumps(g.jumps) THEN "throw" ELSE "continue",
                     what |-> IF TooManyJumps(g.jumps)
                              THEN "Too many DNS pointer jumps" ELSE "",
                     f |-> g, reads |-> {f.offset, f.offset + 1}]
      ELSE LET o1 == f.offset + 1 IN
           IF ~LabelInBounds(data, o1, len)
           THEN [kind |-> "throw", what |-> "DNS label length exceeds bounds",
                 f |-> [f EXCEPT !.offset = o1], reads |-> {f.offset}]
           ELSE [kind |-> "continue", what |-> "",
                 f |-> [f EXCEPT
                          !.out_name = (IF @ = <<>> THEN @ ELSE Append(@, Dot))
                                       \o Bytes(data, o1, len),
                          !.offset = o1 + len],
                 reads |-> {f.offset} \cup (o1..(o1 + len - 1))]

\* read_domain_name(data, offset, out_name) from entry to return or throw:
\* how it ended, out_name and the value returned
RECURSIVE ReadNameLoop(_, _)
ReadNameLoop(data, f) ==
    LET r == ReadNameIter(data, f) IN
    IF r.kind = "continue" THEN ReadNameLoop(data, r.f) ELSE r

\* a return value that is always the distance to where reading stopped
ReadNameResultAtEnd(f) == f.offset - f.original_offset

\* the value read_domain_name returns after the loop
ReadNameResult(f) ==
    IF ~f.jumped THEN f.offset - f.original_offset
    ELSE f.jump_offset - f.original_offset

\* read_uint16 / read_uint32: the bound checks and the big-endian values
read_uint16_ok(data, offset) == ~(offset + 1 >= Len(data))
read_uint32_ok(data, offset) == ~(offset + 3 >= Len(data))
read_uint16(data, offset) == ByteAt(data, offset) * 256 + ByteAt(data, offset + 1)
read_uint32(data, offset) ==
    LET b0 == ByteAt(data, offset) IN
    (IF b0 >= 128 THEN b0 - 256 ELSE b0) * 16777216
    + ByteAt(data, offset + 1) * 65536
    + ByteAt(data, offset + 2) * 256 + ByteAt(data, offset + 3)

\* the rdata check that is always passed
RdataFitsUnchecked(data, offset, rdlength) == TRUE

\* if (offset + rdlength > response.size()) throw
RdataFits(data, offset, rdlength) == ~(offset + rdlength > Len(data))

\* the body of the answer loop of parse_response after the name: type,
\* class, ttl, rdlength and rdata of one record at offset o
ReadFields(data, name, o) ==
    LET fail(what, rd) == [ok |-> FALSE, what |-> what, reads |-> rd,
                           rr |-> <<>>, offset |-> o, rdlength |-> 0]
    IN
    IF ~read_uint16_ok(data, o) THEN fail("read_uint16 exceeds bounds", {})
    ELSE IF ~read_uint16_ok(data, o + 2)
    THEN fail("read_uint16 exceeds bounds", o..(o + 1))
    ELSE IF ~read_uint32_ok(data, o + 4)
    THEN fail("read_uint32 exceeds bounds", o..(o + 3))
    ELSE IF ~read_uint16_ok(data, o + 8)
    THEN fail("read_uint16 exceeds bounds", o..(o + 7))
    ELSE LET rdlength == read_uint16(data, o + 8) IN
         IF ~RdataFits(data, o + 10, rdlength)
         THEN fail("RDATA length exceeds response size", o..(o + 9))
         ELSE [ok |-> TRUE, what |-> "",
               reads |-> o..(o + 10 + rdlength - 1),
               rr |-> [name |-> name,
                       type |-> read_uint16(data, o),
                       cls |-> read_uint16(data, o + 2),
                       ttl |-> read_uint32(data, o + 4),
                       rdata |-> Bytes(data, o + 10, rdlength)],
               offset |-> o + 10 + rdlength,
               rdlength |-> rdlength]

(***************************************************************************)
(* steganography.cpp: the extractor and reconstructor.                     *)
(* An EncodedFragment is a record [record_type, domain, encoded_data,      *)
(* fragment_id, total_fragments, checksum]; a tl::expected result is a     *)
(* record [ok, error, data].                                               *)
(***************************************************************************)
Fragment(type, domain, data, id, total, checksum) ==
    [record_type |-> type, domain |-> domain, encoded_data |-> data,
     fragment_id |-> id, total_fragments |-> total, checksum |-> checksum]

Ok(data) == [ok |-> TRUE, error |-> "", data |-> data]
Unexpected(error) == [ok |-> FALSE, error |-> error, data |-> <<>>]

\* IPv4Encoding::is_valid_steganographic_ip
is_valid_steganographic_ip(ip) ==
    /\ Len(ip) = 4
    /\ \/ ip[1] = 192 /\ ip[2] = 168
       \/ ip[1] = 10
       \/ ip[1] = 172 /\ ip[2] >= 16 /\ ip[2] <= 31

\* IPv6Encoding::is_valid_steganographic_ipv6
is_valid_steganographic_ipv6(ipv6) ==
    /\ Len(ipv6) = 16
    /\ \/ ipv6[1] = 254 /\ ipv6[2] \div 64 = 2
       \/ ipv6[1] = 252
       \/ ipv6[1] = 253

\* SteganographicExtractor::detect_steganographic_pattern
detect_steganographic_pattern(record) ==
    CASE record.type = TypeA -> is_valid_steganographic_ip(record.rdata)
      [] record.type = TypeAAAA -> is_valid_steganographic_ipv6(record.rdata)
      [] record.type = TypeTXT ->
            \/ Find(record.rdata, StrFrag, 0) # -1
            \/ Find(record.rdata, StrSpf1, 0) # -1
      [] OTHER -> FALSE

\* the outcomes of std::sort by fragment_id: every ordering of the list with
\* non-decreasing ids (std::sort leaves the order of equal ids unspecified)
RECURSIVE SortsById(_)
SortsById(fragments) ==
    IF fragments = <<>> THEN {<<>>}
    ELSE LET firsts == {i \in DOMAIN fragments :
                            \A j \in DOMAIN fragments :
                                ~ULess(fragments[j].fragment_id,
                                       fragments[i].fragment_id)}
         IN  UNION {{<<fragments[i]>> \o rest :
                        rest \in SortsById(RemoveAt(fragments, i))} : i \in firsts}

\* validate_fragment_sequence skipping the check of position 0
validate_from_second(fragments) ==
    /\ fragments # <<>>
    /\ \A i \in 1..(Len(fragments) - 1) : fragments[i + 1].fragment_id = i

\* SteganographicExtractor::validate_fragment_sequence
validate_fragment_sequence(fragments) ==
    /\ fragments # <<>>
    /\ \A i \in 0..(Len(fragments) - 1) : fragments[i + 1].fragment_id = i

\* SteganographicExtractor::reconstruct_from_fragments after the sort
reconstruct_sorted(sorted_fragments) ==
    IF ~validate_fragment_sequence(sorted_fragments)
    THEN Unexpected("FragmentationError")
    ELSE Ok(Concat([i \in DOMAIN sorted_fragments |->
                        sorted_fragments[i].encoded_data]))

\* the results reconstruct_from_fragments can return
reconstruct_from_fragments(fragments) ==
    {reconstruct_sorted(s) : s \in SortsById(fragments)}

\* a loop that numbers a fragment by the position of its record
RECURSIVE ExtractFragmentsByPosition(_, _, _)
ExtractFragmentsByPosition(records, k, fragments) ==
    IF k > Len(records) THEN fragments
    ELSE IF ~detect_steganographic_pattern(records[k])
         THEN ExtractFragmentsByPosition(records, k + 1, fragments)
         ELSE ExtractFragmentsByPosition(records, k + 1,
                  Append(fragments,
                         Fragment(records[k].type, records[k].name,
                                  records[k].rdata, k - 1,
                                  Len(records), <<>>)))

\* the fragment list extract_from_dns_response builds from the records
RECURSIVE ExtractFragments(_, _, _)
ExtractFragments(records, k, fragments) ==
    IF k > Len(records) THEN fragments
    ELSE IF ~detect_steganographic_pattern(records[k])
         THEN ExtractFragments(records, k + 1, fragments)
         ELSE ExtractFragments(records, k + 1,
                  Append(fragments,
                         Fragment(records[k].type, records[k].name,
                                  records[k].rdata, Len(fragments),
                                  Len(records), <<>>)))

\* SteganographicExtractor::extract_from_dns_response
extract_from_dns_response(records) ==
    reconstruct_from_fragments(ExtractFragments(records, 1, <<>>))

(***************************************************************************)
(* include/chimera/base64.hpp.                                             *)
(***************************************************************************)
\* '=' pads; a result of Base64::decode is [ok, data], ok = FALSE standing
\* for the std::runtime_error it throws
\* the URL-safe alphabet: '-' and '_' for the values 62 and 63
Base64CharUrl(v) ==
    IF v < 26 THEN 65 + v
    ELSE IF v < 52 THEN 97 + (v - 26)
    ELSE IF v < 62 THEN 48 + (v - 52)
    ELSE IF v = 62 THEN 45 ELSE 95

\* tbl[v], the character of the 6-bit value v
Base64Char(v) ==
    IF v < 26 THEN 65 + v
    ELSE IF v < 52 THEN 97 + (v - 26)
    ELSE IF v < 62 THEN 48 + (v - 52)
    ELSE IF v = 62 THEN 43 ELSE 47

\* Base64::encode: the four characters of every group of three bytes
Base64Encode(in) ==
    LET n == Len(in)
        B(g) == ByteAt(in, 3 * g) * 65536 + ByteAt(in, 3 * g + 1) * 256
                + ByteAt(in, 3 * g + 2)
        Out(g, j) ==
            CASE j = 0 -> Base64Char((B(g) \div 262144) % 64)
              [] j = 1 -> Base64Char((B(g) \div 4096) % 64)
              [] j = 2 -> IF 3 * g + 1 < n THEN Base64Char((B(g) \div 64) % 64)
                          ELSE EqualsSign
              [] j = 3 -> IF 3 * g + 2 < n THEN Base64Char(B(g) % 64)
                          ELSE EqualsSign
    IN  [k \in 1..(4 * ((n + 2) \div 3)) |-> Out((k - 1) \div 4, (k - 1) % 4)]

\* char_to_val: the value, -1 for '=', -2 for the exception
CharToVal(c) ==
    IF c >= 65 /\ c <= 90 THEN c - 65
    ELSE IF c >= 97 /\ c <= 122 THEN c - 97 + 26
    ELSE IF c >= 48 /\ c <= 57 THEN c - 48 + 52
    ELSE IF c = 43 THEN 62
    ELSE IF c = 47 THEN 63
    ELSE IF c = EqualsSign THEN -1
    ELSE -2

\* the bytes Base64::decode appends for one group of four values.  b is a
\* uint32_t built with | from int operands shifted left by 18, 12, 6 and 0;
\* a padding value -1 shifted left has every bit from its position upwards
\* set, so it fills the 6-bit fields above it.  Only bits 0..23 are used.
DecodeGroup(v0, v1, v2, v3) ==
    LET pad == (IF v3 = -1 THEN 1 ELSE 0) + (IF v2 = -1 THEN 1 ELSE 0)
        or2 == pad < 2 /\ v2 = -1
        f3 == IF v0 = -1 \/ v1 = -1 \/ or2 THEN 63 ELSE v0
        f2 == IF v1 = -1 \/ or2 THEN 63 ELSE v1
        f1 == IF pad < 2 THEN (IF v2 = -1 THEN 63 ELSE v2) ELSE 0
        f0 == IF pad < 1 THEN v3 ELSE 0
        b == f3 * 262144 + f2 * 4096 + f1 * 64 + f0
    IN  <<(b \div 65536) % 256>>
        \o (IF pad < 2 THEN <<(b \div 256) % 256>> ELSE <<>>)
        \o (IF pad < 1 THEN <<b % 256>> ELSE <<>>)

\* the groups' bytes from..to appended in order
RECURSIVE ConcatRange(_, _, _)
ConcatRange(ss, from, to) ==
    IF from > to THEN <<>>
    ELSE IF from = to THEN ss[from]
    ELSE LET mid == (from + to) \div 2 IN
         ConcatRange(ss, from, mid) \o ConcatRange(ss, mid + 1, to)

\* Base64::decode
Base64Decode(in) ==
    IF in = <<>> THEN [ok |-> TRUE, data |-> <<>>]
    ELSE IF Len(in) % 4 # 0 THEN [ok |-> FALSE, data |-> <<>>]
    ELSE IF \E k \in DOMAIN in : CharToVal(in[k]) = -2
    THEN [ok |-> FALSE, data |-> <<>>]
    ELSE [ok |-> TRUE,
          data |-> ConcatRange([g \in 1..(Len(in) \div 4) |->
                      DecodeGroup(CharToVal(in[4 * g - 3]), CharToVal(in[4 * g - 2]),
                                  CharToVal(in[4 * g - 1]), CharToVal(in[4 * g]))],
                                1, Len(in) \div 4)]

(***************************************************************************)
(* steganography.cpp: checksum.  The uint32_t crc is held as two 16-bit    *)
(* halves [hi, lo].                                                        *)
(***************************************************************************)
\* a ^ b for 4-bit values
XorNibble ==
    [a \in 0..15 |-> [b \in 0..15 |->
        (IF (a \div 8) % 2 # (b \div 8) % 2 THEN 8 ELSE 0)
        + (IF (a \div 4) % 2 # (b \div 4) % 2 THEN 4 ELSE 0)
        + (IF (a \div 2) % 2 # (b \div 2) % 2 THEN 2 ELSE 0)
        + (IF a % 2 # b % 2 THEN 1 ELSE 0)]]

\* a ^ b for 16-bit values
Xor16(a, b) ==
    XorNibble[a \div 4096][b \div 4096] * 4096
    + XorNibble[(a \div 256) % 16][(b \div 256) % 16] * 256
    + XorNibble[(a \div 16) % 16][(b \div 16) % 16] * 16
    + XorNibble[a % 16][b % 16]

\* the halves of the polynomial 0xEDB88320
PolyHi == 60856
PolyLo == 33568

\* x ^ 0xEDB8 and x ^ 0x8320 for every 16-bit x, at index x + 1
XorPolyHi == [x \in 1..65536 |-> Xor16(x - 1, PolyHi)] \o <<>>
XorPolyLo == [x \in 1..65536 |-> Xor16(x - 1, PolyLo)] \o <<>>

\* crc >> 1
ShiftRight1(crc) ==
    [hi |-> crc.hi \div 2, lo |-> crc.lo \div 2 + (crc.hi % 2) * 32768]

\* one pass of the inner loop: if (crc & 1) crc = (crc >> 1) ^ poly; else crc >>= 1
CrcBit(crc) ==
    LET sh == ShiftRight1(crc) IN
    IF crc.lo % 2 = 1
    THEN [hi |-> XorPolyHi[sh.hi + 1], lo |-> XorPolyLo[sh.lo + 1]]
    ELSE sh

\* a checksum step that leaves the top bit of each byte out
CrcByteLow7(crc, byte) ==
    CrcBit(CrcBit(CrcBit(CrcBit(CrcBit(CrcBit(CrcBit(CrcBit(
        [hi |-> crc.hi, lo |-> Xor16(crc.lo, byte % 128)]))))))))

\* crc ^= byte, then the inner loop's eight passes
CrcByte(crc, byte) ==
    CrcBit(CrcBit(CrcBit(CrcBit(CrcBit(CrcBit(CrcBit(CrcBit(
        [hi |-> crc.hi, lo |-> Xor16(crc.lo, byte)]))))))))

\* the outer loop over data[from..to] (1-based), in order
RECURSIVE CrcRange(_, _, _, _)
CrcRange(crc, data, from, to) ==
    IF from > to THEN crc
    ELSE IF from = to THEN CrcByte(crc, data[from])
    ELSE LET mid == (from + to) \div 2
             c == CrcRange(crc, data, from, mid)
         IN  IF c.lo >= 0 THEN CrcRange(c, data, mid + 1, to) ELSE c

\* SteganographicEncoder::calculate_checksum: CRC32, least significant byte
\* first
calculate_checksum(data) ==
    LET c == CrcRange([hi |-> 65535, lo |-> 65535], data, 1, Len(data))
        hi == Xor16(c.hi, 65535)
        lo == Xor16(c.lo, 65535)
    IN  <<lo % 256, lo \div 256, hi % 256, hi \div 256>>

\* SteganographicEncoder::verify_checksum
verify_checksum(data, checksum) == calculate_checksum(data) = checksum

\* a digit of std::hex with std::uppercase set
HexDigitUpper(d) == IF d < 10 THEN 48 + d ELSE 55 + d

\* std::hex << n for n >= 0: lowercase, no leading zeros
HexDigit(d) == IF d < 10 THEN 48 + d ELSE 87 + d
RECURSIVE Hex(_)
Hex(n) == IF n < 16 THEN <<HexDigit(n)>> ELSE Append(Hex(n \div 16), HexDigit(n % 16))

\* std::to_string(n) for n >= 0
RECURSIVE Decimal(_)
Decimal(n) == IF n < 10 THEN <<48 + n>> ELSE Append(Decimal(n \div 10), 48 + (n % 10))

(***************************************************************************)
(* steganography.cpp: compression.  zlib is a library outside the          *)
(* repository.  deflate is modelled by the stored-block encoding of a zlib *)
(* stream (RFC 1950/1951): a 2-byte header, one final stored block with    *)
(* LEN and its complement, the bytes, and the big-endian Adler-32.  It is  *)
(* Len + 11 bytes long, within the Len + 32 bytes compress_payload         *)
(* provides.  inflate is modelled on streams of stored blocks: it ends     *)
(* with Z_STREAM_END once the Adler-32 matches, whatever bytes follow, and *)
(* with an error on any other input.                                       *)
(***************************************************************************)
RECURSIVE SumRange(_, _, _)
SumRange(f, from, to) ==
    IF from > to THEN 0
    ELSE IF from = to THEN f[from]
    ELSE LET mid == (from + to) \div 2 IN
         SumRange(f, from, mid) + SumRange(f, mid + 1, to)

\* the Adler-32 of data as <<b \div 256, b % 256, a \div 256, a % 256>>
Adler32(data) ==
    LET n == Len(data)
        a == (1 + SumRange(data, 1, n)) % 65521
        b == (n + SumRange([i \in 1..n |-> (n - i + 1) * data[i]], 1, n))
                % 65521
    IN  <<b \div 256, b % 256, a \div 256, a % 256>>

\* deflate(Z_FINISH) of the whole input
Deflate(data) ==
    LET n == Len(data) IN
    <<120, 1, 1, n % 256, n \div 256, 255 - (n % 256), 255 - (n \div 256)>>
    \o data \o Adler32(data)

\* the stored blocks starting at 0-based position at; [ok, out, at]
RECURSIVE InflateBlocks(_, _, _)
InflateBlocks(data, at, out) ==
    IF at + 5 > Len(data) THEN [ok |-> FALSE, out |-> out, at |-> at]
    ELSE LET head == ByteAt(data, at)
             len == ByteAt(data, at + 1) + 256 * ByteAt(data, at + 2)
             nlen == ByteAt(data, at + 3) + 256 * ByteAt(data, at + 4)
         IN  IF (head \div 2) % 4 # 0 \/ len + nlen # 65535
                \/ at + 5 + len > Len(data)
             THEN [ok |-> FALSE, out |-> out, at |-> at]
             ELSE IF head % 2 = 1
             THEN [ok |-> TRUE, out |-> out \o Bytes(data, at + 5, len),
                   at |-> at + 5 + len]
             ELSE InflateBlocks(data, at + 5 + len,
                                out \o Bytes(data, at + 5, len))

\* inflate(Z_FINISH) into a buffer of 4 * Len bytes; ok = Z_STREAM_END
Inflate(data) ==
    IF Len(data) < 2 \/ ByteAt(data, 0) # 120
       \/ (120 * 256 + ByteAt(data, 1)) % 31 # 0
       \/ (ByteAt(data, 1) \div 32) % 2 = 1
    THEN [ok |-> FALSE, out |-> <<>>]
    ELSE LET r == InflateBlocks(data, 2, <<>>) IN
         IF r.ok /\ r.at + 4 <= Len(data) /\ Len(r.out) <= 4 * Len(data)
            /\ Bytes(data, r.at, 4) = Adler32(r.out)
         THEN [ok |-> TRUE, out |-> r.out]
         ELSE [ok |-> FALSE, out |-> <<>>]

\* The zlib library as the process finds it: whether deflateInit and
\* inflateInit return Z_OK (they fail with Z_MEM_ERROR or Z_VERSION_ERROR).
VARIABLE zlib

ZlibStates == [deflate_ok : BOOLEAN, inflate_ok : BOOLEAN]

\* a compress_payload that returns nothing when deflateInit fails
compress_payload_lossy(data) == IF ~zlib.deflate_ok THEN <<>> ELSE Deflate(data)

\* SteganographicEncoder::compress_payload: the payload itself when
\* deflateInit fails
compress_payload(data) == IF ~zlib.deflate_ok THEN data ELSE Deflate(data)

\* SteganographicEncoder::decompress_payload: the input itself when
\* inflateInit fails or inflate does not end with Z_STREAM_END
decompress_payload(compressed) ==
    IF ~zlib.inflate_ok THEN compressed
    ELSE LET r == Inflate(compressed) IN IF r.ok THEN r.out ELSE compressed

(***************************************************************************)
(* steganography.cpp: the carriers.                                        *)
(***************************************************************************)
\* the shared body of encode_to_ipv4 and encode_to_ipv6: size bytes from
\* offset, zeros past the end, and in a short chunk a zero first or second
\* byte replaced by pad0 or pad1
EncodeToAddress(data, at, size, pad0, pad1) ==
    [i \in 1..size |->
        LET b == ByteAt(data, at + i - 1) IN
        IF at + size > Len(data) /\ b = 0 /\ i = 1 THEN pad0
        ELSE IF at + size > Len(data) /\ b = 0 /\ i = 2 THEN pad1
        ELSE b]

\* IPv4Encoding::encode_to_ipv4
encode_to_ipv4(data, at) == EncodeToAddress(data, at, 4, 192, 168)

\* IPv6Encoding::encode_to_ipv6
encode_to_ipv6(data, at) == EncodeToAddress(data, at, 16, 254, 128)

\* IPv4Encoding::decode_from_ipv4
decode_from_ipv4(ipv4_bytes) == IF Len(ipv4_bytes) # 4 THEN <<>> ELSE ipv4_bytes

\* IPv6Encoding::decode_from_ipv6
decode_from_ipv6(ipv6_bytes) == IF Len(ipv6_bytes) # 16 THEN <<>> ELSE ipv6_bytes

\* "v=spf1 include:_spf.google.com ~all; frag="
StrCamouflage ==
    <<118, 61, 115, 112, 102, 49, 32, 105, 110, 99, 108, 117, 100, 101, 58,
      95, 115, 112, 102, 46, 103, 111, 111, 103, 108, 101, 46, 99, 111, 109,
      32, 126, 97, 108, 108, 59, 32, 102, 114, 97, 103, 61>>

\* TXTEncoding::create_steganographic_txt
create_steganographic_txt(chunk, fragment_id) ==
    StrCamouflage \o Hex(fragment_id) \o <<EqualsSign>> \o chunk

\* the Base64 characters per TXT fragment of encode_to_txt_fragments
TxtChunkSize == 200

\* TXTEncoding::encode_to_txt_fragments
encode_to_txt_fragments(data) ==
    LET enc == Base64Encode(data)
        chunk_size == (TxtChunkSize \div 4) * 4
        count == (Len(enc) + chunk_size - 1) \div chunk_size
        Chunk(k) ==
            LET i == k * chunk_size
                c == SubSeq(enc, i + 1, i + Min(chunk_size, Len(enc) - i))
            IN  c \o [j \in 1..((4 - (Len(c) % 4)) % 4) |-> EqualsSign]
    IN  [k \in 1..count |-> create_steganographic_txt(Chunk(k - 1), k - 1)]

\* the part of one TXT string that decode_from_txt_fragments appends to
\* combined
TxtBase64Part(txt) ==
    LET frag_pos == Find(txt, StrFrag, 0) IN
    IF frag_pos # -1
    THEN LET data_start == Find(txt, <<EqualsSign>>, frag_pos + 5) IN
         IF data_start # -1 THEN SubstrFrom(txt, data_start + 1)
         ELSE SubstrFrom(txt, Find(txt, <<EqualsSign>>, frag_pos) + 1)
    ELSE txt

\* TXTEncoding::decode_from_txt_fragments; ok = FALSE when Base64::decode
\* throws
decode_from_txt_fragments(txt_records) ==
    Base64Decode(Concat([k \in DOMAIN txt_records |->
                            TxtBase64Part(txt_records[k])]))

(***************************************************************************)
(* steganography.cpp: SteganographicEncoder.  config_ is a record          *)
(* [strategy, max_fragments, use_compression, randomize_order, noise_ratio]*)
(* whose noise_ratio is a fraction [num, den] with den a power of two, so  *)
(* that the double product fragments.size() * noise_ratio is exact.        *)
(***************************************************************************)
StrWww == <<119, 119, 119>>
StrIpv6 == <<105, 112, 118, 54, 45>>
StrMail == <<109, 97, 105, 108>>
StrSrv == <<115, 114, 118>>
StrNoise == <<110, 111, 105, 115, 101>>

\* SteganographicEncoder::generate_steganographic_subdomain
generate_steganographic_subdomain(fragment_id, record_type) ==
    (CASE record_type = TypeA -> StrWww
       [] record_type = TypeAAAA -> StrIpv6
       [] record_type = TypeTXT -> StrMail
       [] OTHER -> StrSrv) \o Hex(fragment_id)

\* EncodedFragment's default total_fragments, replaced by the callers
WithTotal(fragments, total) ==
    [i \in DOMAIN fragments |-> [fragments[i] EXCEPT !.total_fragments = total]]

\* SteganographicEncoder::encode_txt_only
encode_txt_only(data, domain) ==
    LET txt_fragments == encode_to_txt_fragments(data) IN
    [k \in DOMAIN txt_fragments |->
        Fragment(TypeTXT,
                 generate_steganographic_subdomain(k - 1, TypeTXT)
                    \o <<Dot>> \o domain,
                 txt_fragments[k], k - 1, Len(txt_fragments),
                 calculate_checksum(txt_fragments[k]))]

\* the record type encode_multi_record gives fragment_id
RecordTypeOf(fragment_id) ==
    CASE fragment_id % 3 = 0 -> TypeA
      [] fragment_id % 3 = 1 -> TypeAAAA
      [] OTHER -> TypeTXT

ChunkA == 4
ChunkAAAA == 16
ChunkTXT == 200

\* chunk_size of encode_multi_record with an AAAA chunk of 8 bytes
ChunkSizeHalved(fragment_id, remaining) ==
    Min(CASE fragment_id % 3 = 0 -> ChunkA
          [] fragment_id % 3 = 1 -> 8
          [] OTHER -> Min(ChunkTXT, remaining),
        remaining)

\* chunk_size of encode_multi_record for fragment_id with remaining =
\* payload.size() - offset
ChunkSize(fragment_id, remaining) ==
    Min(CASE fragment_id % 3 = 0 -> ChunkA
          [] fragment_id % 3 = 1 -> ChunkAAAA
          [] OTHER -> Min(ChunkTXT, remaining),
        remaining)

\* the fragment encode_multi_record builds at offset at
MultiRecordFragment(data, domain, at, fragment_id) ==
    LET record_type == RecordTypeOf(fragment_id)
        chunk_size == ChunkSize(fragment_id, Len(data) - at)
        chunk == SubSeq(data, at + 1, at + chunk_size)
        encoded_data ==
            CASE record_type = TypeA -> encode_to_ipv4(data, at)
              [] record_type = TypeAAAA -> encode_to_ipv6(data, at)
              [] OTHER -> create_steganographic_txt(Base64Encode(chunk),
                                                    fragment_id)
    IN  Fragment(record_type,
                 generate_steganographic_subdomain(fragment_id, record_type)
                    \o <<Dot>> \o domain,
                 encoded_data, fragment_id, 0, calculate_checksum(encoded_data))

\* the while loop of encode_multi_record from (offset, fragment_id) = (at,
\* fragment_id): the limit max_fragments is tested after the fragment has
\* been pushed
RECURSIVE MultiRecordLoop(_, _, _, _, _, _)
MultiRecordLoop(data, domain, max_fragments, at, fragment_id, fragments) ==
    IF at >= Len(data) THEN fragments
    ELSE LET pushed == Append(fragments,
                           MultiRecordFragment(data, domain, at, fragment_id))
             next == at + ChunkSize(fragment_id, Len(data) - at)
         IN  IF fragment_id + 1 >= max_fragments THEN pushed
             ELSE MultiRecordLoop(data, domain, max_fragments, next,
                                  fragment_id + 1, pushed)

\* std::mt19937 seeded from std::random_device: the generator's output is a
\* function of a seed that the device picks.  The draws of
\* add_noise_fragments, type_dis(gen) and byte_dis(gen), for noise fragment
\* i under a seed; the stream is a stand-in for the generator's own
NoiseType(seed, i) == 1 + ((seed * 15 + i * 5) % 16)
NoiseByte(seed, i, j) == (seed * 101 + i * 29 + j * 7) % 256

NoiseBytes == 32

\* the noise fragment that carries fragment id 0
NoiseFragmentZeroId(domain, seed, i) ==
    Fragment(NoiseType(seed, i),
             StrNoise \o Decimal(i) \o <<Dot>> \o domain,
             [j \in 1..NoiseBytes |-> NoiseByte(seed, i, j - 1)],
             0, 0, <<>>)

\* noise fragment i of add_noise_fragments
NoiseFragment(domain, seed, i) ==
    Fragment(NoiseType(seed, i),
             StrNoise \o Decimal(i) \o <<Dot>> \o domain,
             [j \in 1..NoiseBytes |-> NoiseByte(seed, i, j - 1)],
             NoiseId, 0, <<>>)

\* SteganographicEncoder::add_noise_fragments
add_noise_fragments(fragments, domain, noise_ratio, seed) ==
    LET noise_count == (Len(fragments) * noise_ratio.num) \div noise_ratio.den
    IN  fragments \o [k \in 1..noise_count |-> NoiseFragment(domain, seed, k - 1)]

\* the orders std::shuffle can leave a list in: every permutation of a
\* list of at most MaxShuffle elements, the rotations and the reversal of a
\* longer one
Shuffles(fragments) ==
    LET n == Len(fragments) IN
    IF n <= MaxShuffle
    THEN {[i \in 1..n |-> fragments[p[i]]] : p \in Permutations(1..n)}
    ELSE {[i \in 1..n |-> fragments[((i + k - 1) % n) + 1]] : k \in 0..(n - 1)}
         \cup {[i \in 1..n |-> fragments[n + 1 - i]]}

\* a reordering that also renumbers the fragments by their new position
randomize_fragment_order_renumbered(fragments) ==
    {[i \in DOMAIN s |-> [s[i] EXCEPT !.fragment_id =
                                   IF @ = NoiseId THEN @ ELSE i - 1]] :
        s \in Shuffles(fragments)}

\* SteganographicEncoder::randomize_fragment_order
randomize_fragment_order(fragments) == Shuffles(fragments)

\* SteganographicEncoder::encode_multi_record: the lists it can return
encode_multi_record(data, domain, cfg, seed) ==
    LET real == MultiRecordLoop(data, domain, cfg.max_fragments, 0, 0, <<>>)
        counted == WithTotal(real, Len(real))
        noised == IF cfg.noise_ratio.num > 0
                  THEN add_noise_fragments(counted, domain, cfg.noise_ratio, seed)
                  ELSE counted
    IN  IF cfg.randomize_order THEN randomize_fragment_order(noised)
        ELSE {noised}

\* a sort by record type that reverses the fragments of equal type
SortByTypeReversing(fragments) ==
    Concat([t \in 1..TypeAAAA |->
               LET group == SelectSeq(fragments, LAMBDA f : f.record_type = t)
               IN  [i \in DOMAIN group |-> group[Len(group) + 1 - i]]])

\* std::stable_sort by static_cast<int>(record_type)
StableSortByType(fragments) ==
    Concat([t \in 1..TypeAAAA |->
               SelectSeq(fragments, LAMBDA f : f.record_type = t)])

\* SteganographicEncoder::encode_distributed
encode_distributed(data, domain, cfg, seed) ==
    {StableSortByType(fragments) :
        fragments \in encode_multi_record(data, domain, cfg, seed)}

EncodeOk(fragments) == [ok |-> TRUE, error |-> "", fragments |-> fragments]
EncodeError(error) == [ok |-> FALSE, error |-> error, fragments |-> <<>>]

\* SteganographicEncoder::encode_payload: the results it can return
encode_payload(data, domain, cfg, seed) ==
    IF data = <<>> THEN {EncodeError("PayloadTooLarge")}
    ELSE LET processed_payload ==
                 IF cfg.use_compression THEN compress_payload(data) ELSE data
         IN  CASE cfg.strategy = "TXT_ONLY" ->
                    {EncodeOk(encode_txt_only(processed_payload, domain))}
               [] cfg.strategy = "MULTI_RECORD" ->
                    {EncodeOk(f) : f \in encode_multi_record(processed_payload,
                                                              domain, cfg, seed)}
               [] cfg.strategy = "DISTRIBUTED" ->
                    {EncodeOk(f) : f \in encode_distributed(processed_payload,
                                                             domain, cfg, seed)}
               [] OTHER -> {EncodeError("EncodingError")}

\* what one fragment adds in the loop of decode_fragments: [ok, used, data],
\* ok = FALSE when decode_from_txt_fragments throws
DecodeOne(fragment) ==
    IF ~verify_checksum(fragment.encoded_data, fragment.checksum)
    THEN [ok |-> TRUE, used |-> FALSE, data |-> <<>>]
    ELSE CASE fragment.record_type = TypeA ->
                [ok |-> TRUE, used |-> TRUE,
                 data |-> decode_from_ipv4(fragment.encoded_data)]
           [] fragment.record_type = TypeAAAA ->
                [ok |-> TRUE, used |-> TRUE,
                 data |-> decode_from_ipv6(fragment.encoded_data)]
           [] fragment.record_type = TypeTXT ->
                LET d == decode_from_txt_fragments(<<fragment.encoded_data>>)
                IN  [ok |-> d.ok, used |-> TRUE, data |-> d.data]
           [] OTHER -> [ok |-> TRUE, used |-> TRUE, data |-> <<>>]

DecodeResult(kind, error, data, reassembled, used_record_types) ==
    [kind |-> kind, error |-> error, data |-> data,
     reassembled |-> reassembled, used_record_types |-> used_record_types]

\* the erase / remove_if of decode_fragments
RemoveNoise(sorted) == SelectSeq(sorted, LAMBDA f : f.fragment_id # NoiseId)

\* decode_fragments from its loop on: kind is "ok" for a DecodedPayload,
\* "error" for a SteganographyError and "exception" when the
\* std::runtime_error of Base64::decode leaves the function; reassembled is
\* reconstructed_data before decompression
DecodeLoop(sorted_fragments, cfg) ==
    LET parts == [i \in DOMAIN sorted_fragments |-> DecodeOne(sorted_fragments[i])]
        reconstructed_data == Concat([i \in DOMAIN parts |-> parts[i].data])
        used_types ==
            LET idx == SelectSeq([i \in DOMAIN parts |-> i],
                                 LAMBDA i : parts[i].used)
            IN  [k \in DOMAIN idx |-> sorted_fragments[idx[k]].record_type]
    IN  IF \E i \in DOMAIN parts : ~parts[i].ok
        THEN DecodeResult("exception", "std::runtime_error", <<>>, <<>>, <<>>)
        ELSE DecodeResult("ok", "",
                          IF cfg.use_compression
                          THEN decompress_payload(reconstructed_data)
                          ELSE reconstructed_data,
                          reconstructed_data, used_types)

\* SteganographicEncoder::decode_fragments: the results it can return, one
\* for each order std::sort can leave fragments of equal id in
decode_fragments(fragments, cfg) ==
    IF fragments = <<>>
    THEN {DecodeResult("error", "DecodingError", <<>>, <<>>, <<>>)}
    ELSE {DecodeLoop(sorted_fragments, cfg) :
            sorted_fragments \in {RemoveNoise(sorted) :
                                     sorted \in SortsById(fragments)}}

(***************************************************************************)
(* State.                                                                  *)
(***************************************************************************)
VARIABLES
    \* ChimeraClient: the running operation ("ping" = ping_dns_server,
    \* "recv" = receive_data), its position, the index of receive_data's
    \* loop over query_types, its query_domain, its all_records and what
    \* the operation returned
    c_op, c_pc, c_round, query_domain, all_records, c_ret,
    \* DnsPacketBuilder::parse_response: its argument, position, offset,
    \* hdr.qdcount/ancount, loop counters, answers, the locals of the running
    \* read_domain_name and the message of the exception thrown
    response, p_pc, offset, hdr, q_i, a_i, answers, rdn, p_err,
    \* history: whether a byte at an index >= response.size() was read, and
    \* <<offset, rdlength>> of the rdata of every record pushed to answers
    oob, rdspan

VARIABLES
    \* SteganographicEncoder: the payload, base domain and config_ of a call,
    \* the position of the run, the result of encode_payload, the fragment
    \* list handed to decode_fragments / reconstruct_from_fragments and the
    \* result of that call
    payload, base_domain, config, s_pc, encoded, fragments_in, decoded

clientVars == <<c_op, c_pc, c_round, query_domain, all_records, c_ret>>
parserVars == <<response, p_pc, offset, hdr, q_i, a_i, answers, rdn, p_err,
                oob, rdspan>>
wireVars == <<clientVars, parserVars>>
stegVars == <<payload, base_domain, config, s_pc, encoded, fragments_in, decoded>>

\* gen: the state of the static generator DnsPacketBuilder::gen
\* threads: for each thread, the core operation it calls and where it is
\* call, ret: a call of a function without side effects and what it returned
VARIABLES gen, threads, call, ret

VARIABLES
    \* AsyncIOManager::Impl: running_, the holder of requests_mutex_ ("free"
    \* or a thread), pending_requests_ and active_requests_ (request
    \* numbers in queue order), the thread that executes
    \* process_events_internal and its position, every AsyncRequest with
    \* the position of the thread that owns it, and whether std::terminate
    \* has ended the process
    running_, requests_mutex_, pending_requests_, active_requests_,
    processor, requests, terminated

threadVars == <<gen, threads>>
callVars == <<call, ret>>
asyncVars == <<running_, requests_mutex_, pending_requests_, active_requests_,
               processor, requests, terminated>>
restVars == <<zlib, threadVars, callVars, asyncVars>>
vars == <<wireVars, stegVars, restVars>>

(***************************************************************************)
(* Response buffers the transport can deliver.                             *)
(***************************************************************************)
\* a 12-byte header with the given QDCOUNT and ANCOUNT
Header(qd, an) == <<0, 0, 129, 128, 0, qd, 0, an, 0, 0, 0, 0>>

\* bytes of the enumerated sections: end of name, a one-byte label length,
\* the offset of the first question, the first byte of a pointer
BodyBytes == {0, 1, 12, 192}

\* every header followed by every short section over BodyBytes
SmallBufs ==
    {Header(qd, an) \o body :
        qd \in 0..MaxCount, an \in 0..MaxCount, body \in SeqsUpTo(BodyBytes, MaxBody)}

\* the question "a" IN A and owner names of answer records: a pointer to the
\* question name, the root, a label followed by a pointer
QuestionA == <<1, 97, 0, 0, 1, 0, 1>>
OwnerNames == {<<192, 12>>, <<0>>, <<1, 98, 192, 12>>}

\* rdata contents: a private IPv4 address, then filler
RdataPattern == <<192, 168, 1, 2, 7, 8, 9, 10>>

\* one answer record; `have` bytes of rdata follow a stated length rdl
AnswerRecord(owner, type, rdl, have) ==
    owner \o <<0, type, 0, 1, 0, 0, 0, 60, rdl \div 256, rdl % 256>>
          \o SubSeq(RdataPattern, 1, have)

\* a complete second record
SecondRecord == <<192, 12, 0, 1, 0, 1, 0, 0, 0, 60, 0, 4, 10, 0, 0, 1>>

\* responses with one question and one or two answers, some with less rdata
\* than their RDLENGTH states
AnswerBufs ==
    {Header(1, n) \o QuestionA \o AnswerRecord(o, t, rdl, have)
                  \o (IF n = 2 THEN SecondRecord ELSE <<>>) :
        n \in 1..2, o \in OwnerNames, t \in {TypeA, TypeTXT},
        rdl \in 0..MaxRdlen, have \in {0, 3, MaxRdlen} }

\* a question name that is a chain of k pointers, each to the next, ending
\* in the label "a"
RECURSIVE PointerChain(_, _)
PointerChain(k, at) ==
    IF k = 0 THEN <<1, 97, 0>>
    ELSE <<192, at + 2>> \o PointerChain(k - 1, at + 2)

ChainBufs ==
    {Header(1, 0) \o PointerChain(k, HeaderSize) \o <<0, 1, 0, 1>> : k \in 0..MaxChain}
    \cup {Header(1, 0) \o <<192, 14, 192, 12>>}

\* every response of the model: the above and all their truncations
Responses ==
    SmallBufs \cup ChainBufs \cup UNION {Prefixes(b) : b \in AnswerBufs}

\* the responses receive_data's rounds draw from
RecvResponses ==
    { Header(1, 1) \o QuestionA \o AnswerRecord(<<192, 12>>, TypeA, 4, 4),
      Header(1, 1) \o QuestionA \o AnswerRecord(<<192, 12>>, TypeA, 4, 3),
      Header(1, 0) \o PointerChain(max_jumps + 1, HeaderSize) \o <<0, 1, 0, 1>>,
      Header(0, 0) }

\* a valid query domain "a.b" and one whose label has MaxLabel + 1 bytes
QueryDomains == {<<97, 46, 98>>, [i \in 1..(MaxLabel + 1) |-> 97]}

(***************************************************************************)
(* dns_packet.cpp: parse_response, one action per loop step.               *)
(***************************************************************************)
ParserIdle ==
    /\ response = <<>> /\ p_pc = "idle" /\ offset = 0
    /\ hdr = [qdcount |-> 0, ancount |-> 0]
    /\ q_i = 0 /\ a_i = 0 /\ answers = <<>> /\ rdn = ReadNameBegin(0)
    /\ p_err = "" /\ oob = FALSE /\ rdspan = <<>>

\* the call parse_response(b, records) with a fresh, empty records vector
CallParse(b) ==
    /\ response' = b /\ p_pc' = "entry" /\ offset' = 0
    /\ hdr' = [qdcount |-> 0, ancount |-> 0]
    /\ q_i' = 0 /\ a_i' = 0 /\ answers' = <<>> /\ rdn' = ReadNameBegin(0)
    /\ p_err' = "" /\ rdspan' = <<>>
    /\ UNCHANGED oob

NoteReads(reads) == oob' = (oob \/ \E i \in reads : i >= Len(response))

Throw(what) == p_pc' = "threw" /\ p_err' = what

\* the size check and the six header fields
ParseEntry ==
    /\ p_pc = "entry"
    /\ IF Len(response) < HeaderSize
       THEN /\ Throw("DNS response too short")
            /\ UNCHANGED <<offset, hdr, oob>>
       ELSE /\ hdr' = [qdcount |-> read_uint16(response, 4),
                       ancount |-> read_uint16(response, 6)]
            /\ offset' = HeaderSize
            /\ p_pc' = "questions"
            /\ NoteReads(0..(HeaderSize - 1))
            /\ UNCHANGED p_err
    /\ UNCHANGED <<response, q_i, a_i, answers, rdn, rdspan, clientVars, stegVars, restVars>>

\* the head of the loop that skips questions
ParseQuestion ==
    /\ p_pc = "questions"
    /\ IF q_i < hdr.qdcount
       THEN rdn' = ReadNameBegin(offset) /\ p_pc' = "q_name"
       ELSE UNCHANGED rdn /\ p_pc' = "answers"
    /\ UNCHANGED <<response, offset, hdr, q_i, a_i, answers, p_err, oob, rdspan,
                   clientVars, stegVars, restVars>>

\* the head of the loop that processes answers
ParseAnswer ==
    /\ p_pc = "answers"
    /\ IF a_i < hdr.ancount
       THEN rdn' = ReadNameBegin(offset) /\ p_pc' = "a_name"
       ELSE UNCHANGED rdn /\ p_pc' = "returned"
    /\ UNCHANGED <<response, offset, hdr, q_i, a_i, answers, p_err, oob, rdspan,
                   clientVars, stegVars, restVars>>

\* one iteration of read_domain_name's loop; on break, the caller's use of
\* the returned length (questions also skip type and class)
ReadNameStep ==
    /\ p_pc \in {"q_name", "a_name"}
    /\ LET r == ReadNameIter(response, rdn) IN
       /\ rdn' = r.f
       /\ NoteReads(r.reads)
       /\ CASE r.kind = "throw" ->
                 Throw(r.what) /\ UNCHANGED <<offset, q_i>>
            [] r.kind = "continue" ->
                 UNCHANGED <<p_pc, p_err, offset, q_i>>
            [] r.kind = "break" /\ p_pc = "q_name" ->
                 /\ offset' = offset + ReadNameResult(r.f) + 4
                 /\ q_i' = q_i + 1
                 /\ p_pc' = "questions"
                 /\ UNCHANGED p_err
            [] r.kind = "break" /\ p_pc = "a_name" ->
                 /\ offset' = offset + ReadNameResult(r.f)
                 /\ p_pc' = "a_fields"
                 /\ UNCHANGED <<p_err, q_i>>
    /\ UNCHANGED <<response, hdr, a_i, answers, rdspan, clientVars, stegVars, restVars>>

\* type, class, ttl, rdlength and rdata of one answer; answers.push_back
ParseFields ==
    /\ p_pc = "a_fields"
    /\ LET r == ReadFields(response, rdn.out_name, offset) IN
       /\ NoteReads(r.reads)
       /\ IF r.ok
          THEN /\ answers' = Append(answers, r.rr)
               /\ rdspan' = Append(rdspan, <<r.offset - r.rdlength, r.rdlength>>)
               /\ offset' = r.offset
               /\ a_i' = a_i + 1
               /\ p_pc' = "answers"
               /\ UNCHANGED p_err
          ELSE /\ Throw(r.what)
               /\ UNCHANGED <<answers, rdspan, offset, a_i>>
    /\ UNCHANGED <<response, hdr, q_i, rdn, clientVars, stegVars, restVars>>

ParserStep ==
    ParseEntry \/ ParseQuestion \/ ParseAnswer \/ ReadNameStep \/ ParseFields

(***************************************************************************)
(* client.cpp: ping_dns_server and receive_data around parse_response.     *)
(***************************************************************************)
\* "ping.test"
PingDomain == <<112, 105, 110, 103, 46, 116, 101, 115, 116>>

\* std::vector<DnsType> query_types = {A, AAAA, TXT}
query_types == <<TypeA, TypeAAAA, TypeTXT>>

Returned(kind, what, data) == [kind |-> kind, what |-> what, data |-> data]

\* create_transport() returned null, or send / receive failed
PingFails ==
    /\ c_op = "ping" /\ c_pc = "start"
    /\ \E e \in {"ConfigError", "NetworkError"} :
           c_ret' = Returned("error", e, <<>>)
    /\ c_pc' = "returned"
    /\ UNCHANGED <<c_op, c_round, query_domain, all_records, parserVars, stegVars, restVars>>

\* the query is built and sent, a response arrives and is handed to
\* parse_response inside the try block
PingReceive ==
    /\ c_op = "ping" /\ c_pc = "start"
    /\ build_query([name |-> PingDomain, type |-> TypeA, cls |-> ClassIN],
                   <<>>, 0).ok
    /\ \E b \in Responses : CallParse(b)
    /\ c_pc' = "parsing"
    /\ UNCHANGED <<c_op, c_round, query_domain, all_records, c_ret, stegVars, restVars>>

\* catch (const std::exception&): the error is logged, the latency returned
PingCatch ==
    /\ c_op = "ping" /\ c_pc = "parsing" /\ p_pc = "threw"
    /\ c_pc' = "returned"
    /\ c_ret' = Returned("value", "latency", <<>>)
    /\ UNCHANGED <<c_op, c_round, query_domain, all_records, parserVars, stegVars, restVars>>

\* parse_response returned: the latency is returned
PingReturn ==
    /\ c_op = "ping" /\ c_pc = "parsing" /\ p_pc = "returned"
    /\ c_pc' = "returned"
    /\ c_ret' = Returned("value", "latency", <<>>)
    /\ UNCHANGED <<c_op, c_round, query_domain, all_records, parserVars, stegVars, restVars>>

\* receive_data: create_transport(), null or not
RecvBegin ==
    /\ c_op = "recv" /\ c_pc = "start"
    /\ \/ c_pc' = "returned" /\ c_ret' = Returned("error", "ConfigError", <<>>)
       \/ c_pc' = "loop" /\ UNCHANGED c_ret
    /\ UNCHANGED <<c_op, c_round, query_domain, all_records, parserVars, stegVars, restVars>>

RecvQuery ==
    build_query([name |-> query_domain, type |-> query_types[c_round + 1],
                 cls |-> ClassIN], <<>>, 0)

\* build_query throws; receive_data has no handler
RecvBuildThrows ==
    /\ c_op = "recv" /\ c_pc = "loop" /\ c_round < Len(query_types)
    /\ ~RecvQuery.ok
    /\ c_pc' = "unhandled"
    /\ c_ret' = Returned("exception", "build_query", <<>>)
    /\ UNCHANGED <<c_op, c_round, query_domain, all_records, parserVars, stegVars, restVars>>

\* send or receive failed: the round adds nothing
RecvSkip ==
    /\ c_op = "recv" /\ c_pc = "loop" /\ c_round < Len(query_types)
    /\ RecvQuery.ok
    /\ c_round' = c_round + 1
    /\ UNCHANGED <<c_op, c_pc, query_domain, all_records, c_ret, parserVars, stegVars, restVars>>

\* a response arrives and is handed to parse_response
RecvReceive ==
    /\ c_op = "recv" /\ c_pc = "loop" /\ c_round < Len(query_types)
    /\ RecvQuery.ok
    /\ \E b \in RecvResponses : CallParse(b)
    /\ c_pc' = "parsing"
    /\ UNCHANGED <<c_op, c_round, query_domain, all_records, c_ret, stegVars, restVars>>

\* parse_response returned: all_records.insert(end, records)
RecvCollect ==
    /\ c_op = "recv" /\ c_pc = "parsing" /\ p_pc = "returned"
    /\ all_records' = all_records \o answers
    /\ c_round' = c_round + 1
    /\ c_pc' = "loop"
    /\ UNCHANGED <<c_op, query_domain, c_ret, parserVars, stegVars, restVars>>

\* parse_response threw: nothing in receive_data catches it
RecvPropagate ==
    /\ c_op = "recv" /\ c_pc = "parsing" /\ p_pc = "threw"
    /\ c_pc' = "unhandled"
    /\ c_ret' = Returned("exception", "parse_response", <<>>)
    /\ UNCHANGED <<c_op, c_round, query_domain, all_records, parserVars, stegVars, restVars>>

\* after the loop: extract_from_dns_response(all_records)
RecvExtract ==
    /\ c_op = "recv" /\ c_pc = "loop" /\ c_round = Len(query_types)
    /\ \E r \in extract_from_dns_response(all_records) :
           c_ret' = IF r.ok THEN Returned("value", "data", r.data)
                    ELSE Returned("error", "DecodingError", <<>>)
    /\ c_pc' = "returned"
    /\ UNCHANGED <<c_op, c_round, query_domain, all_records, parserVars, stegVars, restVars>>

ClientStep ==
    \/ PingFails \/ PingReceive \/ PingCatch \/ PingReturn
    \/ RecvBegin \/ RecvBuildThrows \/ RecvSkip \/ RecvReceive
    \/ RecvCollect \/ RecvPropagate \/ RecvExtract

\* zlib initialises, no thread runs, no function is being called
ZlibFine == zlib = [deflate_ok |-> TRUE, inflate_ok |-> TRUE]
ThreadsIdle == gen = 0 /\ threads = <<>>
CallsIdle == call = <<>> /\ ret = <<>>
AsyncIdle ==
    /\ running_ = FALSE /\ requests_mutex_ = "free"
    /\ pending_requests_ = <<>> /\ active_requests_ = <<>>
    /\ processor = <<>> /\ requests = <<>> /\ terminated = FALSE

StegIdle ==
    /\ payload = <<>> /\ base_domain = <<>> /\ config = <<>> /\ s_pc = "idle"
    /\ encoded = <<>> /\ fragments_in = <<>> /\ decoded = <<>>

WireInit ==
    /\ c_op \in {"ping", "recv"}
    /\ c_pc = "start" /\ c_round = 0
    /\ query_domain \in IF c_op = "ping" THEN {PingDomain} ELSE QueryDomains
    /\ all_records = <<>>
    /\ c_ret = Returned("none", "", <<>>)
    /\ ParserIdle
    /\ StegIdle
    /\ ZlibFine /\ ThreadsIdle /\ CallsIdle /\ AsyncIdle

WireNext == ParserStep \/ ClientStep

\* a client operation called on a freshly constructed client
SpecWire == WireInit /\ [][WireNext]_vars

\* the same, run by a thread that keeps executing while a step is possible
FairSpecWire == WireInit /\ [][WireNext]_vars /\ WF_vars(WireNext)

(***************************************************************************)
(* The encoder and decoder called directly: encode_payload on a payload,   *)
(* decode_fragments on the list it returned, and decode_fragments or       *)
(* reconstruct_from_fragments on a fragment list received from elsewhere.  *)
(***************************************************************************)
\* no client call and no parse in progress
WireQuiet ==
    /\ c_op = "none" /\ c_pc = "idle" /\ c_round = 0
    /\ query_domain = <<>> /\ all_records = <<>>
    /\ c_ret = Returned("none", "", <<>>)
    /\ ParserIdle

Strategies == {"TXT_ONLY", "MULTI_RECORD", "DISTRIBUTED", "HTTP2_BODY"}

DefaultMaxFragments == 10

NoiseRatios == {[num |-> 0, den |-> 1], [num |-> 1, den |-> 2],
                [num |-> 1, den |-> 1]}

Configs ==
    [strategy : Strategies,
     max_fragments : (0..MaxFragments) \cup {DefaultMaxFragments},
     use_compression : BOOLEAN,
     randomize_order : BOOLEAN,
     noise_ratio : NoiseRatios]

\* "CHIMERA"
StrChimera == <<67, 72, 73, 77, 69, 82, 65>>

\* n bytes, all different and none zero / all zero
DistinctBytes(n) == [i \in 1..n |-> 1 + ((i * 7) % 250)]
ZeroBytes(n) == [i \in 1..n |-> 0]

\* every payload of at most MaxPayload bytes over {0, 'A'}, "CHIMERA", and
\* payloads that end inside or at the end of each carrier of the A / AAAA /
\* TXT cycle, and one that needs a fourth fragment
PatternLens == {4, 5, 20, 21}
Payloads ==
    SeqsUpTo({0, 65}, MaxPayload) \cup {StrChimera, DistinctBytes(221)}
    \cup {DistinctBytes(n) : n \in PatternLens}
    \cup {ZeroBytes(n) : n \in PatternLens}

\* "a.b", and a name of the greatest length validate_domain_name accepts:
\* three labels of 63 letters and one of 61
ShortDomain == <<97, 46, 98>>
LongDomain == [i \in 1..MaxName |-> IF i % (MaxLabel + 1) = 0 THEN Dot ELSE 97]
Domains == {ShortDomain, LongDomain}

\* the base domains a payload is encoded under: the long one is tried with
\* the payloads of fewer than MaxPayload bytes
DomainsFor(p) == IF Len(p) < MaxPayload THEN Domains ELSE {ShortDomain}

\* the states of zlib a call is made in: failing initialisation is tried
\* with compression configured, the short base domain and the payloads of
\* fewer than MaxPayload bytes
ZlibStatesFor(p, d, cfg) ==
    IF cfg.use_compression /\ d = ShortDomain /\ Len(p) < MaxPayload
    THEN ZlibStates
    ELSE {[deflate_ok |-> TRUE, inflate_ok |-> TRUE]}
Seeds == 0..MaxSeed

\* a fragment as a peer could send it: variant selects type, data and
\* whether the checksum is the CRC32 of the data
GivenData(variant, id) ==
    LET n == IF id = NoiseId THEN 9 ELSE id IN
    CASE variant \in {"A", "A-corrupt"} -> <<10, 0, 0, n>>
      [] variant = "AAAA" -> <<254, 128, 0, 0, 0, 0, 0, 0, 0, 0, 0, 0, 0, 0, 0, n>>
      [] variant = "TXT" -> create_steganographic_txt(Base64Encode(<<65 + n>>), n)
      [] variant = "TXT-malformed" -> <<97, 98, 99 + n>>
      [] OTHER -> <<n>>
GivenType(variant) ==
    CASE variant \in {"A", "A-corrupt"} -> TypeA
      [] variant = "AAAA" -> TypeAAAA
      [] variant \in {"TXT", "TXT-malformed"} -> TypeTXT
      [] OTHER -> TypeCNAME
GivenVariants == {"A", "A-corrupt", "AAAA", "TXT", "TXT-malformed", "CNAME"}
GivenIds == (0..MaxGivenId) \cup {NoiseId}
GivenFragments ==
    {Fragment(GivenType(v), <<>>, GivenData(v, id), id, 0,
              IF v = "A-corrupt" THEN <<0, 0, 0, 0>>
              ELSE calculate_checksum(GivenData(v, id))) :
        v \in GivenVariants, id \in GivenIds}
GivenLists == SeqsUpTo(GivenFragments, MaxGiven)

\* an encoder with EncodingConfig's default strategy, fragment limit and
\* compression
GivenConfig ==
    [strategy |-> "MULTI_RECORD", max_fragments |-> DefaultMaxFragments,
     use_compression |-> TRUE, randomize_order |-> FALSE,
     noise_ratio |-> [num |-> 0, den |-> 1]]

\* the (fragment_id, record_type) pairs generate_steganographic_subdomain is
\* called with on its own, each as a fragment without domain and data: ids
\* of one and of several hex digits, and a record type for each prefix
NamingIds == {0, 9, 10, 15, 16, 171, 255, 256, 65535}
NamingRequests ==
    {<<Fragment(t, <<>>, <<>>, id, 0, <<>>)>> :
        t \in {TypeA, TypeAAAA, TypeTXT, TypeCNAME}, id \in NamingIds}

NoResult == [kind |-> "none"]

StegInit ==
    /\ WireQuiet /\ ThreadsIdle /\ CallsIdle /\ AsyncIdle
    /\ encoded = NoResult /\ decoded = NoResult
    /\ \/ /\ s_pc = "ready"
          /\ payload \in Payloads /\ base_domain \in DomainsFor(payload)
          /\ config \in Configs
          /\ zlib \in ZlibStatesFor(payload, base_domain, config)
          /\ fragments_in = <<>>
       \/ /\ s_pc = "given"
          /\ ZlibFine
          /\ payload = <<>> /\ base_domain = <<>>
          /\ config = GivenConfig
          /\ fragments_in \in GivenLists

\* encode_payload(payload, base_domain)
EncodePayload ==
    /\ s_pc = "ready"
    /\ \E seed \in (IF config.noise_ratio.num > 0 THEN Seeds ELSE {0}) :
          encoded' \in encode_payload(payload, base_domain, config, seed)
    /\ s_pc' = "encoded"
    /\ UNCHANGED <<wireVars, restVars, payload, base_domain, config, fragments_in, decoded>>

\* decode_fragments(fragments) on the list the encoder returned or on a
\* received list
DecodeFragments ==
    /\ \/ s_pc = "given" /\ fragments_in' = fragments_in
       \/ s_pc = "encoded" /\ encoded.ok /\ fragments_in' = encoded.fragments
    /\ decoded' \in decode_fragments(fragments_in', config)
    /\ s_pc' = "decoded"
    /\ UNCHANGED <<wireVars, restVars, payload, base_domain, config, encoded>>

\* SteganographicExtractor::reconstruct_from_fragments(fragments) on a
\* received list
ReconstructFromFragments ==
    /\ s_pc = "given"
    /\ decoded' \in reconstruct_from_fragments(fragments_in)
    /\ s_pc' = "reconstructed"
    /\ UNCHANGED <<wireVars, restVars, payload, base_domain, config, encoded, fragments_in>>

\* generate_steganographic_subdomain(fragment_id, record_type)
GenerateSubdomain ==
    /\ s_pc = "naming"
    /\ decoded' = [kind |-> "name",
                   data |-> generate_steganographic_subdomain(
                                fragments_in[1].fragment_id,
                                fragments_in[1].record_type)]
    /\ s_pc' = "named"
    /\ UNCHANGED <<wireVars, restVars, payload, base_domain, config, encoded, fragments_in>>

StegNext == EncodePayload \/ DecodeFragments \/ ReconstructFromFragments

SpecSteg == StegInit /\ [][StegNext]_vars

(***************************************************************************)
(* The encoder on payloads of one to four fragments: one byte, "CHIMERA",  *)
(* 21 bytes (A, AAAA and the start of a TXT) and 221 bytes (a fourth       *)
(* fragment), under every fragment strategy with max_fragments             *)
(* MaxFragments or the default, with and without compression, shuffling    *)
(* and noise; 220 bytes (one full A / AAAA / TXT cycle) without them; and  *)
(* generate_steganographic_subdomain on its own.                           *)
(***************************************************************************)
EncodePayloadsFor(cfg) ==
    {<<65>>, StrChimera, DistinctBytes(21), DistinctBytes(221)}
    \cup (IF ~cfg.use_compression /\ ~cfg.randomize_order /\ cfg.noise_ratio.num = 0
          THEN {DistinctBytes(220)} ELSE {})
EncodeConfigs ==
    {c \in Configs : /\ c.strategy \in {"TXT_ONLY", "MULTI_RECORD", "DISTRIBUTED"}
                     /\ c.max_fragments \in {MaxFragments, DefaultMaxFragments}}

EncodeInit ==
    /\ WireQuiet /\ ZlibFine /\ ThreadsIdle /\ CallsIdle /\ AsyncIdle
    /\ encoded = NoResult /\ decoded = NoResult
    /\ \/ /\ s_pc = "ready"
          /\ config \in EncodeConfigs
          /\ payload \in EncodePayloadsFor(config) /\ base_domain = ShortDomain
          /\ fragments_in = <<>>
       \/ /\ s_pc = "naming"
          /\ payload = <<>> /\ base_domain = <<>>
          /\ config = GivenConfig
          /\ fragments_in \in NamingRequests

EncodeNext == EncodePayload \/ DecodeFragments \/ GenerateSubdomain

SpecEncode == EncodeInit /\ [][EncodeNext]_vars

(***************************************************************************)
(* A fragment on its way to the receiver: verify_checksum is called on a   *)
(* fragment encode_payload returned, as it is or after one bit of its      *)
(* encoded_data was inverted.                                              *)
(***************************************************************************)
\* byte x with bit b (0 = least significant) inverted
FlipBit(x, b) == IF (x \div (2 ^ b)) % 2 = 1 THEN x - 2 ^ b ELSE x + 2 ^ b

\* the payloads and configurations whose fragments are verified: the
\* payloads of 1..MaxPayload bytes and one that fills an A and an AAAA
\* fragment and starts a TXT fragment
VerifyPayloads == (SeqsUpTo({0, 65}, MaxPayload) \ {<<>>}) \cup {DistinctBytes(21)}
VerifyConfigs ==
    {c \in Configs : /\ c.strategy \in {"TXT_ONLY", "MULTI_RECORD", "DISTRIBUTED"}
                     /\ c.max_fragments = DefaultMaxFragments
                     /\ ~c.use_compression /\ ~c.randomize_order
                     /\ c.noise_ratio.num = 0}

VerifyInit ==
    /\ WireQuiet /\ ZlibFine /\ ThreadsIdle /\ CallsIdle /\ AsyncIdle
    /\ encoded = NoResult /\ decoded = NoResult
    /\ s_pc = "ready"
    /\ payload \in VerifyPayloads /\ base_domain = ShortDomain
    /\ config \in VerifyConfigs
    /\ fragments_in = <<>>

\* verify_checksum(fragment.encoded_data, fragment.checksum) on a fragment
\* as the encoder returned it
VerifyIntact ==
    /\ s_pc = "encoded" /\ encoded.ok
    /\ \E k \in DOMAIN encoded.fragments :
          LET f == encoded.fragments[k] IN
          /\ fragments_in' = <<f>>
          /\ decoded' = [kind |-> "verify",
                         ok |-> verify_checksum(f.encoded_data, f.checksum)]
    /\ s_pc' = "verified"
    /\ UNCHANGED <<wireVars, restVars, payload, base_domain, config, encoded>>

\* the same call after bit b of byte i of the fragment's encoded_data was
\* inverted
VerifyFlipped ==
    /\ s_pc = "encoded" /\ encoded.ok
    /\ \E k \in DOMAIN encoded.fragments :
          \E i \in DOMAIN encoded.fragments[k].encoded_data, b \in 0..7 :
              LET f == encoded.fragments[k]
                  g == [f EXCEPT !.encoded_data[i] = FlipBit(@, b)]
              IN  /\ fragments_in' = <<g>>
                  /\ decoded' = [kind |-> "verify",
                                 ok |-> verify_checksum(g.encoded_data, g.checksum)]
    /\ s_pc' = "verified"
    /\ UNCHANGED <<wireVars, restVars, payload, base_domain, config, encoded>>

VerifyNext == EncodePayload \/ VerifyIntact \/ VerifyFlipped

SpecVerify == VerifyInit /\ [][VerifyNext]_vars

(***************************************************************************)
(* Threads calling the core operations at the same time.  build_query      *)
(* draws the message id from DnsPacketBuilder::gen, a static member        *)
(* (dns_packet.cpp:10-11, dns_packet.hpp:49-50) that no lock guards; one   *)
(* draw reads the generator's state and writes the advanced state back.    *)
(* encode_payload draws from generators that add_noise_fragments and       *)
(* randomize_fragment_order construct on their own stack, and              *)
(* decode_fragments draws nothing.  A generator is modelled by its         *)
(* position in its output sequence, the position also standing for the     *)
(* value drawn there.                                                      *)
(***************************************************************************)
Threads == {1, 2}
CoreOps == {"build_query", "encode_payload", "decode_fragments"}

\* the positions a generator is followed over
MaxDraws == 3
GenStates == 0..MaxDraws

\* thread t is between the two halves of a draw from the static generator,
\* or about to begin one
InStaticDraw(t) == threads[t].pc \in {"gen_load", "gen_store"}

ThreadsInit ==
    /\ WireQuiet /\ StegIdle /\ ZlibFine /\ CallsIdle /\ AsyncIdle
    /\ gen \in 0..1
    /\ threads \in [Threads -> {[op |-> o, pc |-> "start", loaded |-> 0,
                                 local |-> 0, id |-> -1] : o \in CoreOps}]

\* the call begins
ThreadCall(t) ==
    /\ threads[t].pc = "start"
    /\ threads' = [threads EXCEPT ![t].pc =
                      CASE threads[t].op = "build_query" -> "gen_load"
                        [] threads[t].op = "encode_payload" -> "local_seed"
                        [] OTHER -> "done"]
    /\ UNCHANGED <<wireVars, stegVars, zlib, asyncVars, callVars, gen>>

\* hdr.id = gen() & 0xFFFF, first half: the static generator's state is read
GenLoad(t) ==
    /\ threads[t].pc = "gen_load"
    /\ threads' = [threads EXCEPT ![t].pc = "gen_store", ![t].loaded = gen]
    /\ UNCHANGED <<wireVars, stegVars, zlib, asyncVars, callVars, gen>>

\* second half: the advanced state is written back and the value drawn
\* becomes the id.  When another thread is inside a draw from the same
\* generator the two accesses are a data race, and the state and the id may
\* be anything.
GenStore(t) ==
    /\ threads[t].pc = "gen_store"
    /\ threads[t].loaded < MaxDraws
    /\ IF \E u \in Threads \ {t} : InStaticDraw(u)
       THEN \E g \in GenStates, i \in GenStates :
               /\ gen' = g
               /\ threads' = [threads EXCEPT ![t].pc = "done", ![t].id = i % 65536]
       ELSE /\ gen' = threads[t].loaded + 1
            /\ threads' = [threads EXCEPT ![t].pc = "done",
                                          ![t].id = threads[t].loaded % 65536]
    /\ UNCHANGED <<wireVars, stegVars, zlib, asyncVars, callVars>>

\* std::random_device rd; std::mt19937 gen(rd()) inside add_noise_fragments /
\* randomize_fragment_order: a generator of the thread's own
LocalSeed(t) ==
    /\ threads[t].pc = "local_seed"
    /\ \E seed \in 0..1 :
          threads' = [threads EXCEPT ![t].pc = "local_draw", ![t].local = seed]
    /\ UNCHANGED <<wireVars, stegVars, zlib, asyncVars, callVars, gen>>

\* a draw from the thread's own generator
LocalDraw(t) ==
    /\ threads[t].pc = "local_draw"
    /\ threads' = [threads EXCEPT ![t].pc = "done", ![t].local = @ + 1]
    /\ UNCHANGED <<wireVars, stegVars, zlib, asyncVars, callVars, gen>>

ThreadsNext ==
    \E t \in Threads :
        ThreadCall(t) \/ GenLoad(t) \/ GenStore(t) \/ LocalSeed(t) \/ LocalDraw(t)

SpecThreads == ThreadsInit /\ [][ThreadsNext]_vars

(***************************************************************************)
(* The functions whose result depends on their arguments alone, each       *)
(* called once: build_query (the id it draws is taken as an argument),     *)
(* validate_domain_name, estimate_capacity, estimate_total_capacity and    *)
(* ChimeraClient::estimate_capacity.                                       *)
(***************************************************************************)
\* a TXT estimate of a whole character-string per fragment
estimate_capacity_255(record_type, max_fragments) ==
    CASE record_type = TypeA -> 4 * max_fragments
      [] record_type = TypeAAAA -> 16 * max_fragments
      [] record_type = TypeTXT -> 255 * max_fragments
      [] OTHER -> 0

\* SteganographicEncoder::estimate_capacity
estimate_capacity(record_type, max_fragments) ==
    CASE record_type = TypeA -> 4 * max_fragments
      [] record_type = TypeAAAA -> 16 * max_fragments
      [] record_type = TypeTXT -> 200 * max_fragments
      [] OTHER -> 0

\* the estimate for HTTP2_BODY
Http2Estimate == 1024

\* an estimate that gives each record type all of max_fragments
estimate_total_capacity_undivided(cfg) ==
    CASE cfg.strategy = "TXT_ONLY" -> estimate_capacity(TypeTXT, cfg.max_fragments)
      [] cfg.strategy \in {"MULTI_RECORD", "DISTRIBUTED"} ->
            estimate_capacity(TypeA, cfg.max_fragments)
            + estimate_capacity(TypeAAAA, cfg.max_fragments)
            + estimate_capacity(TypeTXT, cfg.max_fragments)
      [] cfg.strategy = "HTTP2_BODY" -> Http2Estimate
      [] OTHER -> 0

\* SteganographicEncoder::estimate_total_capacity
estimate_total_capacity(cfg) ==
    CASE cfg.strategy = "TXT_ONLY" -> estimate_capacity(TypeTXT, cfg.max_fragments)
      [] cfg.strategy \in {"MULTI_RECORD", "DISTRIBUTED"} ->
            estimate_capacity(TypeA, cfg.max_fragments \div 3)
            + estimate_capacity(TypeAAAA, cfg.max_fragments \div 3)
            + estimate_capacity(TypeTXT, cfg.max_fragments \div 3)
      [] cfg.strategy = "HTTP2_BODY" -> Http2Estimate
      [] OTHER -> 0

\* ChimeraClient::estimate_capacity for a client constructed with config_
client_estimate_capacity(config_) ==
    estimate_total_capacity(
        [strategy |-> config_.encoding_strategy,
         max_fragments |-> config_.max_fragments,
         use_compression |-> TRUE, randomize_order |-> TRUE,
         noise_ratio |-> [num |-> 1, den |-> 10]])

\* the greatest fragment count and the greatest length of a generated name
\* the functions are called with
MaxCapacityN == 6
MaxNameLen == 4

Letters(n) == [i \in 1..n |-> 97]

\* names for build_query: "", "a", "a.b", "test.example.com", "a..b", ".a.",
\* and labels of 63 and 64 letters followed by ".b"
StrTestExampleCom ==
    <<116, 101, 115, 116, 46, 101, 120, 97, 109, 112, 108, 101, 46, 99, 111, 109>>
BuildNames ==
    {<<>>, <<97>>, ShortDomain, StrTestExampleCom, <<97, 46, 46, 98>>,
     <<46, 97, 46>>, Letters(MaxLabel) \o <<46, 98>>,
     Letters(MaxLabel + 1) \o <<46, 98>>}
BuildPayloads == {<<>>, <<0>>, StrChimera, ZeroBytes(255), ZeroBytes(256)}
BuildIds == {0, 4660, 65535}
BuildCalls ==
    [fn : {"build_query"},
     q : [name : BuildNames, type : {TypeA, TypeTXT, TypeAAAA}, cls : {ClassIN}],
     payload : BuildPayloads, id : BuildIds]

\* names for validate_domain_name: every string of at most MaxNameLen
\* characters over 'a', '.', '-', '!', and names at the length limits and
\* with the other accepted kinds of character ("_", "A0", "a_b-9.Z")
ValidateNames ==
    SeqsUpTo({97, 46, 45, 33}, MaxNameLen)
    \cup {LongDomain, LongDomain \o <<97>>,
          Letters(MaxLabel), Letters(MaxLabel + 1),
          <<95>>, <<65, 48>>, <<97, 95, 98, 45, 57, 46, 90>>}
ValidateCalls == [fn : {"validate_domain_name"}, domain : ValidateNames]

CapacityCalls ==
    [fn : {"estimate_capacity"},
     record_type : {TypeA, TypeNS, TypeCNAME, TypeMX, TypeTXT, TypeAAAA},
     max_fragments : 0..MaxCapacityN]
FragmentBudgets == (0..MaxCapacityN) \cup {DefaultMaxFragments}
TotalCapacityCalls ==
    [fn : {"estimate_total_capacity"},
     cfg : [strategy : Strategies, max_fragments : FragmentBudgets,
            use_compression : {TRUE}, randomize_order : {TRUE},
            noise_ratio : {[num |-> 0, den |-> 1]}]]
ClientCapacityCalls ==
    [fn : {"ChimeraClient::estimate_capacity"},
     config_ : [encoding_strategy : Strategies, max_fragments : FragmentBudgets]]

\* strings for Base64::encode: every string of at most MaxB64Len bytes over
\* 0x00, 'A', 0xFF, and "AB", "ABC", "CHIMERA"
MaxB64Len == 3
Base64Inputs ==
    SeqsUpTo({0, 65, 255}, MaxB64Len) \cup {<<65, 66>>, <<65, 66, 67>>, StrChimera}
Base64Calls == [fn : {"Base64"}, in : Base64Inputs]

\* payloads and offsets for encode_to_ipv4 / encode_to_ipv6: the payloads of
\* the encoder up to 21 bytes, from the start, from the second byte and
\* from where an A or an AAAA chunk of the cycle begins
AddressCalls ==
    {[fn |-> f, payload |-> p, offset |-> o] :
        f \in {"encode_to_ipv4", "encode_to_ipv6"},
        p \in {q \in Payloads : Len(q) <= 21},
        o \in {0, 1, 4, 20}}

\* resource records for extract_from_dns_response: A, AAAA and TXT records
\* the detector accepts (10.0.0.1, fe80::1, "frag=0") and rejects (1.2.3.4,
\* a 4-byte AAAA, "abc"), and a CNAME; the names are "www0.a" and "x"
MaxRecords == 3
ExtractRdata ==
    {[type |-> TypeA, rdata |-> <<10, 0, 0, 1>>],
     [type |-> TypeA, rdata |-> <<1, 2, 3, 4>>],
     [type |-> TypeAAAA, rdata |-> <<254, 128, 0, 0, 0, 0, 0, 0, 0, 0, 0, 0, 0, 0, 0, 1>>],
     [type |-> TypeAAAA, rdata |-> <<254, 128, 0, 1>>],
     [type |-> TypeTXT, rdata |-> StrFrag \o <<48>>],
     [type |-> TypeTXT, rdata |-> <<97, 98, 99>>],
     [type |-> TypeCNAME, rdata |-> <<10, 0, 0, 1>>]}
ExtractRecords ==
    {[name |-> <<119, 119, 119, 48, 46, 97>>, type |-> r.type, rdata |-> r.rdata] :
        r \in ExtractRdata}
    \cup {[name |-> <<120>>, type |-> TypeA, rdata |-> <<10, 0, 0, 1>>]}
ExtractCalls ==
    {[fn |-> "extract_from_dns_response", records |-> rs] :
        rs \in SeqsUpTo(ExtractRecords, MaxRecords)}

\* names for write_domain_name: every string of at most MaxNameLen
\* characters over 'a', 'b' and '.', names with a label of 63 and of 64
\* letters, the longest valid name, and labels holding the bytes 0 and 200
RoundTripNames ==
    SeqsUpTo({97, 98, Dot}, MaxNameLen)
    \cup {Letters(MaxLabel), Letters(MaxLabel + 1),
          <<98, Dot>> \o Letters(MaxLabel), <<98, Dot>> \o Letters(MaxLabel + 1),
          LongDomain, <<0>>, <<200, Dot, 97>>}
NameCalls == [fn : {"write_domain_name"}, name : RoundTripNames]

NotReturned == [returned |-> FALSE]
Return(value) == [returned |-> TRUE, value |-> value]

CallsInit ==
    /\ WireQuiet /\ StegIdle /\ ZlibFine /\ ThreadsIdle /\ AsyncIdle
    /\ ret = NotReturned
    /\ \/ call \in BuildCalls
       \/ call \in ValidateCalls
       \/ call \in CapacityCalls
       \/ call \in TotalCapacityCalls
       \/ call \in ClientCapacityCalls
       \/ call \in Base64Calls
       \/ call \in {c \in AddressCalls : c.offset <= Len(c.payload)}
       \/ call \in ExtractCalls
       \/ call \in NameCalls

Pending(fn) == call.fn = fn /\ ~ret.returned

BuildQuery ==
    /\ Pending("build_query")
    /\ ret' = Return(build_query(call.q, call.payload, call.id))
    /\ UNCHANGED <<wireVars, stegVars, zlib, asyncVars, threadVars, call>>

ValidateDomainName ==
    /\ Pending("validate_domain_name")
    /\ ret' = Return(validate_domain_name(call.domain))
    /\ UNCHANGED <<wireVars, stegVars, zlib, asyncVars, threadVars, call>>

EstimateCapacity ==
    /\ Pending("estimate_capacity")
    /\ ret' = Return(estimate_capacity(call.record_type, call.max_fragments))
    /\ UNCHANGED <<wireVars, stegVars, zlib, asyncVars, threadVars, call>>

EstimateTotalCapacity ==
    /\ Pending("estimate_total_capacity")
    /\ ret' = Return(estimate_total_capacity(call.cfg))
    /\ UNCHANGED <<wireVars, stegVars, zlib, asyncVars, threadVars, call>>

ClientEstimateCapacity ==
    /\ Pending("ChimeraClient::estimate_capacity")
    /\ ret' = Return(client_estimate_capacity(call.config_))
    /\ UNCHANGED <<wireVars, stegVars, zlib, asyncVars, threadVars, call>>

\* Base64::decode(Base64::encode(in)): the encoded text and what decode
\* returned for it
Base64RoundTrip ==
    /\ Pending("Base64")
    /\ ret' = Return([encoded |-> Base64Encode(call.in),
                      decoded |-> Base64Decode(Base64Encode(call.in))])
    /\ UNCHANGED <<wireVars, stegVars, zlib, asyncVars, threadVars, call>>

\* write_domain_name(packet, name) on an empty packet, read_domain_name at
\* offset 0 of the bytes written, and build_query for the name
NameRoundTrip ==
    /\ Pending("write_domain_name")
    /\ LET written == write_domain_name(<<>>, call.name)
           query == build_query([name |-> call.name, type |-> TypeA,
                                 cls |-> ClassIN], <<>>, 0)
       IN  ret' = Return(
              [written |-> written, query |-> query,
               read |-> IF ~written.ok THEN <<>>
                        ELSE LET r == ReadNameLoop(written.packet, ReadNameBegin(0))
                             IN  [kind |-> r.kind, out_name |-> r.f.out_name,
                                  consumed |-> ReadNameResult(r.f)]])
    /\ UNCHANGED <<wireVars, stegVars, zlib, asyncVars, threadVars, call>>

\* extract_from_dns_response(records): the fragment list it builds and
\* what it returns
ExtractFromDnsResponse ==
    /\ Pending("extract_from_dns_response")
    /\ \E r \in extract_from_dns_response(call.records) :
          ret' = Return([fragments |-> ExtractFragments(call.records, 1, <<>>),
                         result |-> r])
    /\ UNCHANGED <<wireVars, stegVars, zlib, asyncVars, threadVars, call>>

\* encode_to_ipv4 / encode_to_ipv6 on a payload and an offset, and
\* decode_from_ipv4 / decode_from_ipv6 on the address returned
EncodeToIp ==
    /\ call.fn \in {"encode_to_ipv4", "encode_to_ipv6"} /\ ~ret.returned
    /\ LET address == IF call.fn = "encode_to_ipv4"
                      THEN encode_to_ipv4(call.payload, call.offset)
                      ELSE encode_to_ipv6(call.payload, call.offset)
       IN  ret' = Return([address |-> address,
                          decoded |-> IF call.fn = "encode_to_ipv4"
                                      THEN decode_from_ipv4(address)
                                      ELSE decode_from_ipv6(address)])
    /\ UNCHANGED <<wireVars, stegVars, zlib, asyncVars, threadVars, call>>

CallsNext ==
    \/ BuildQuery \/ ValidateDomainName \/ EstimateCapacity
    \/ EstimateTotalCapacity \/ ClientEstimateCapacity \/ Base64RoundTrip
    \/ EncodeToIp \/ ExtractFromDnsResponse \/ NameRoundTrip

SpecCalls == CallsInit /\ [][CallsNext]_vars

(***************************************************************************)
(* AsyncIO.cpp: AsyncIOManager.  Requests are submitted by application     *)
(* threads; process_events_internal is executed either by the worker       *)
(* thread of start_background_processing or by an application thread that  *)
(* calls process_events; every request that has not timed out is handed to *)
(* a detached thread running process_single_request.  The clock, the       *)
(* transport and the callback are outside the manager: whether the timeout *)
(* has elapsed and what send and receive do is chosen when the step runs,  *)
(* and a callback either returns or throws a std::exception each time it   *)
(* is invoked.                                                             *)
(***************************************************************************)
MaxRequests == 2
Requests == 1..MaxRequests
Callbacks == {"returns", "throws"}
TransportOutcomes == {"ok", "error", "throw"}

\* an AsyncRequest made by send_text_async / ping_async and not yet passed
\* to submit_request; results are the AsyncResults its callback was invoked
\* with, in order
NewRequest(callback) ==
    [callback |-> callback, pc |-> "created", timed_out |-> FALSE,
     transport_used |-> FALSE, result |-> "", results |-> <<>>]

AsyncInit ==
    /\ WireQuiet /\ StegIdle /\ ZlibFine /\ ThreadsIdle /\ CallsIdle
    /\ running_ = FALSE /\ requests_mutex_ = "free"
    /\ pending_requests_ = <<>> /\ active_requests_ = <<>>
    /\ terminated = FALSE
    /\ processor \in {[kind |-> "worker", pc |-> "exited"],
                      [kind |-> "caller", pc |-> "idle"]}
    /\ requests \in [Requests -> {NewRequest(c) : c \in Callbacks}]

\* where process_events_internal returns to
Returned_from(kind) == IF kind = "worker" THEN "loop" ELSE "idle"

\* request->callback(result) on request r: the invocation is recorded, and
\* the request is at `after` if the callback returns and at `thrown` if it
\* throws
Invoke(r, result, after, thrown) ==
    [requests EXCEPT ![r].results = Append(@, result),
                     ![r].pc = IF requests[r].callback = "returns"
                               THEN after ELSE thrown]

\* submit_request: lock_guard lock(requests_mutex_)
SubmitLock(r) ==
    /\ ~terminated /\ requests[r].pc = "created"
    /\ requests_mutex_ = "free"
    /\ requests_mutex_' = "submitter"
    /\ requests' = [requests EXCEPT ![r].pc = "submitting"]
    /\ UNCHANGED <<wireVars, stegVars, zlib, threadVars, callVars,
                   running_, pending_requests_, active_requests_, processor, terminated>>

\* submit_request: start_time, push, notify_one, and the unlock on return
SubmitPush(r) ==
    /\ ~terminated /\ requests[r].pc = "submitting"
    /\ pending_requests_' = Append(pending_requests_, r)
    /\ requests_mutex_' = "free"
    /\ requests' = [requests EXCEPT ![r].pc = "queued"]
    /\ UNCHANGED <<wireVars, stegVars, zlib, threadVars, callVars,
                   running_, active_requests_, processor, terminated>>

\* start_background_processing: running_.exchange(true) and the new worker
\* thread
StartBackgroundProcessing ==
    /\ ~terminated /\ processor.kind = "worker" /\ processor.pc = "exited"
    /\ ~running_
    /\ running_' = TRUE
    /\ processor' = [processor EXCEPT !.pc = "loop"]
    /\ UNCHANGED <<wireVars, stegVars, zlib, threadVars, callVars,
                   requests_mutex_, pending_requests_, active_requests_, requests, terminated>>

\* stop_background_processing: running_.exchange(false); notify_all and join
\* change nothing of the manager
StopBackgroundProcessing ==
    /\ ~terminated /\ running_
    /\ running_' = FALSE
    /\ UNCHANGED <<wireVars, stegVars, zlib, threadVars, callVars,
                   requests_mutex_, pending_requests_, active_requests_, processor, requests, terminated>>

\* the worker's while (running_)
WorkerLoop ==
    /\ ~terminated /\ processor.pc = "loop"
    /\ processor' = [processor EXCEPT !.pc = IF running_ THEN "lock" ELSE "exited"]
    /\ UNCHANGED <<wireVars, stegVars, zlib, threadVars, callVars,
                   running_, requests_mutex_, pending_requests_, active_requests_, requests, terminated>>

\* process_events(timeout) called by the application
ProcessEvents ==
    /\ ~terminated /\ processor.pc = "idle"
    /\ processor' = [processor EXCEPT !.pc = "lock"]
    /\ UNCHANGED <<wireVars, stegVars, zlib, threadVars, callVars,
                   running_, requests_mutex_, pending_requests_, active_requests_, requests, terminated>>

\* process_events_internal: lock_guard lock(requests_mutex_)
ProcessorLock ==
    /\ ~terminated /\ processor.pc = "lock"
    /\ requests_mutex_ = "free"
    /\ requests_mutex_' = "processor"
    /\ processor' = [processor EXCEPT !.pc = "move"]
    /\ UNCHANGED <<wireVars, stegVars, zlib, threadVars, callVars,
                   running_, pending_requests_, active_requests_, requests, terminated>>

\* process_events_internal: the loop that moves pending_requests_ to
\* active_requests_, and the unlock at the end of the block
MovePending ==
    /\ ~terminated /\ processor.pc = "move"
    /\ active_requests_' = active_requests_ \o pending_requests_
    /\ pending_requests_' = <<>>
    /\ requests_mutex_' = "free"
    /\ processor' = [processor EXCEPT !.pc = "process"]
    /\ UNCHANGED <<wireVars, stegVars, zlib, threadVars, callVars,
                   running_, requests, terminated>>

\* one iteration of while (!active_requests_.empty()): the front request is
\* popped; if elapsed >= timeout its callback is invoked with Timeout, else
\* a detached thread is started for it.  An exception of the callback
\* leaves process_events_internal: in the worker thread it ends the process
\* (std::terminate), in process_events it reaches the caller
ProcessRequest ==
    /\ ~terminated /\ processor.pc = "process" /\ active_requests_ # <<>>
    /\ LET r == Head(active_requests_) IN
       /\ active_requests_' = Tail(active_requests_)
       /\ \E elapsed \in BOOLEAN :
             IF elapsed
             THEN /\ requests' = [Invoke(r, "Timeout", "done", "done")
                                     EXCEPT ![r].timed_out = TRUE]
                  /\ IF requests[r].callback = "returns"
                     THEN UNCHANGED <<processor, terminated>>
                     ELSE IF processor.kind = "worker"
                          THEN terminated' = TRUE /\ UNCHANGED processor
                          ELSE /\ processor' = [processor EXCEPT !.pc = "idle"]
                               /\ UNCHANGED terminated
             ELSE /\ requests' = [requests EXCEPT ![r].pc = "send"]
                  /\ UNCHANGED <<processor, terminated>>
    /\ UNCHANGED <<wireVars, stegVars, zlib, threadVars, callVars,
                   running_, requests_mutex_, pending_requests_>>

\* after the loop: if (running_) the wait follows, else the function returns
ProcessReturn ==
    /\ ~terminated /\ processor.pc = "process" /\ active_requests_ = <<>>
    /\ processor' = [processor EXCEPT
                        !.pc = IF running_ THEN "wait"
                               ELSE Returned_from(processor.kind)]
    /\ UNCHANGED <<wireVars, stegVars, zlib, threadVars, callVars,
                   running_, requests_mutex_, pending_requests_, active_requests_, requests, terminated>>

\* requests_cv_.wait_for(lock, timeout, pred): the mutex is taken, the wait
\* ends when pred holds or the timeout has passed, the mutex is released
Wait ==
    /\ ~terminated /\ processor.pc = "wait"
    /\ requests_mutex_ = "free"
    /\ processor' = [processor EXCEPT !.pc = Returned_from(processor.kind)]
    /\ UNCHANGED <<wireVars, stegVars, zlib, threadVars, callVars,
                   running_, requests_mutex_, pending_requests_, active_requests_, requests, terminated>>

\* process_single_request: request->transport->send(dns_query)
Send(r) ==
    /\ ~terminated /\ requests[r].pc = "send"
    /\ \E outcome \in TransportOutcomes :
          requests' = [requests EXCEPT
             ![r].transport_used = TRUE,
             ![r].result = IF outcome = "error" THEN "send error" ELSE "",
             ![r].pc = CASE outcome = "ok" -> "receive"
                         [] outcome = "error" -> "callback"
                         [] OTHER -> "catch"]
    /\ UNCHANGED <<wireVars, stegVars, zlib, threadVars, callVars,
                   running_, requests_mutex_, pending_requests_, active_requests_, processor, terminated>>

\* process_single_request: request->transport->receive()
Receive(r) ==
    /\ ~terminated /\ requests[r].pc = "receive"
    /\ \E outcome \in TransportOutcomes :
          requests' = [requests EXCEPT
             ![r].result = CASE outcome = "ok" -> "success"
                             [] outcome = "error" -> "receive error"
                             [] OTHER -> "",
             ![r].pc = IF outcome = "throw" THEN "catch" ELSE "callback"]
    /\ UNCHANGED <<wireVars, stegVars, zlib, threadVars, callVars,
                   running_, requests_mutex_, pending_requests_, active_requests_, processor, terminated>>

\* process_single_request: request->callback(result) inside the try block
Callback(r) ==
    /\ ~terminated /\ requests[r].pc = "callback"
    /\ requests' = Invoke(r, requests[r].result, "done", "catch")
    /\ UNCHANGED <<wireVars, stegVars, zlib, threadVars, callVars,
                   running_, requests_mutex_, pending_requests_, active_requests_, processor, terminated>>

\* process_single_request: catch (const std::exception&) and its
\* request->callback(result) with SendFailed; an exception of this call
\* leaves the thread function (std::terminate)
Catch(r) ==
    /\ ~terminated /\ requests[r].pc = "catch"
    /\ requests' = Invoke(r, "SendFailed", "done", "done")
    /\ terminated' = (requests[r].callback = "throws")
    /\ UNCHANGED <<wireVars, stegVars, zlib, threadVars, callVars,
                   running_, requests_mutex_, pending_requests_, active_requests_, processor>>

ProcessorStep ==
    \/ WorkerLoop \/ ProcessEvents \/ ProcessorLock \/ MovePending
    \/ ProcessRequest \/ ProcessReturn \/ Wait

AsyncNext ==
    \/ \E r \in Requests : SubmitLock(r)
    \/ \E r \in Requests : SubmitPush(r)
    \/ StartBackgroundProcessing
    \/ StopBackgroundProcessing
    \/ ProcessorStep
    \/ \E r \in Requests : Send(r)
    \/ \E r \in Requests : Receive(r)
    \/ \E r \in Requests : Callback(r)
    \/ \E r \in Requests : Catch(r)

SpecAsync == AsyncInit /\ [][AsyncNext]_vars

\* the same with threads that keep running: a thread inside submit_request
\* leaves it, the thread executing process_events_internal takes its next
\* step (the application keeps calling process_events), and every thread in
\* process_single_request takes its next step
FairSpecAsync ==
    /\ AsyncInit /\ [][AsyncNext]_vars
    /\ WF_vars(\E r \in Requests : SubmitPush(r))
    /\ WF_vars(ProcessorStep)
    /\ \A r \in Requests :
          WF_vars(Send(r) \/ Receive(r) \/ Callback(r) \/ Catch(r))

(***************************************************************************)
(* Properties of the wire codec and its callers.                           *)
(***************************************************************************)
ParseEnded == p_pc \in {"returned", "threw"}

\* C2: every call of parse_response ends (returns or throws); while one name
\* is read at most max_jumps = 5 pointer jumps are followed, and meeting a
\* further pointer (a longer chain, a pointer to itself, a cycle) ends the
\* call with the parse failure "Too many DNS pointer jumps".
C2_ParseTerminates ==
    /\ [](/\ rdn.jumps <= max_jumps + 1
          /\ rdn.jumps > max_jumps =>
                p_pc = "threw" /\ p_err = "Too many DNS pointer jumps")
    /\ (p_pc = "entry" ~> ParseEnded)

\* a pointer bomb was met: the sixth pointer of one name ended the parse
C2_Witness ==
    /\ p_pc = "threw" /\ p_err = "Too many DNS pointer jumps"
    /\ rdn.jumps = max_jumps + 1

\* C3: parse_response reads no byte at an index >= response.size(); it gets
\* past the header only if the buffer has 12 bytes; when it returns, it has
\* parsed ANCOUNT records and the rdata of each is the RDLENGTH bytes of the
\* buffer that follow its ten fixed bytes, all inside the buffer.
C3_NoReadPastEnd ==
    /\ ~oob
    /\ p_pc \in {"questions", "q_name", "answers", "a_name", "a_fields",
                 "returned"} => Len(response) >= HeaderSize
    /\ p_pc = "returned" => Len(answers) = hdr.ancount
    /\ Len(rdspan) = Len(answers)
    /\ \A i \in DOMAIN answers :
          LET o == rdspan[i][1]
              n == rdspan[i][2]
          IN  /\ o >= HeaderSize + 10 /\ o + n <= Len(response)
              /\ n = read_uint16(response, o - 2)
              /\ Len(answers[i].rdata) = n
              /\ \A k \in 1..n : answers[i].rdata[k] = response[o + k]

\* a record whose rdata ends exactly at the end of the buffer was returned
C3_Witness ==
    /\ p_pc = "returned" /\ Len(answers) >= 1
    /\ rdspan[1][2] > 0
    /\ rdspan[Len(rdspan)][1] + rdspan[Len(rdspan)][2] = Len(response)

\* C4: no parse_response failure leaves ping_dns_server or receive_data as
\* an unhandled exception: both turn it into a normal return.
C4_ParseFailureRecovered ==
    ~(c_pc = "unhandled" /\ c_ret.what = "parse_response")

(***************************************************************************)
(* Properties of the encoder and the decoders.                             *)
(***************************************************************************)
FragmentStrategies == {"TXT_ONLY", "MULTI_RECORD", "DISTRIBUTED"}

\* encode_payload has returned a fragment list
Encoded == s_pc = "encoded" /\ encoded.ok

\* the fragments of a list that do not carry the sentinel id, and those that do
RealFragments(fragments) == SelectSeq(fragments, LAMBDA f : f.fragment_id # NoiseId)
Decoys(fragments) == SelectSeq(fragments, LAMBDA f : f.fragment_id = NoiseId)

\* the ids of a list
IdsOf(fragments) == {fragments[j].fragment_id : j \in DOMAIN fragments}

\* the fragment of a list that has id i
WithId(fragments, i) ==
    fragments[CHOOSE j \in DOMAIN fragments : fragments[j].fragment_id = i]

\* the bytes the strategies split: the payload, compressed if configured
Processed == IF config.use_compression THEN compress_payload(payload) ELSE payload

\* the bytes fragment i of the A / AAAA / TXT cycle can carry, and the
\* payload offset it starts at when the fragments before it are full
Capacity(i) == CASE i % 3 = 0 -> 4 [] i % 3 = 1 -> 16 [] OTHER -> 200
StartOf(i) ==
    (i \div 3) * 220 + (CASE i % 3 = 0 -> 0 [] i % 3 = 1 -> 4 [] OTHER -> 20)

\* C1: with randomize_order = false, encode_payload succeeds for every
\* payload and fragment strategy, and decode_fragments of the list it
\* returned succeeds with exactly the payload as data.
C1_RoundTrip ==
    (config.strategy \in FragmentStrategies /\ ~config.randomize_order) =>
        /\ s_pc = "encoded" => encoded.ok
        /\ (s_pc = "decoded" /\ encoded # NoResult) =>
              decoded.kind = "ok" /\ decoded.data = payload

\* C5: in every list encode_payload returns, the ids other than the sentinel
\* are 0..N-1, each once, and every noise fragment has the sentinel id.
C5_IdsContiguous ==
    Encoded =>
        LET real == RealFragments(encoded.fragments) IN
        /\ IdsOf(real) = 0..(Len(real) - 1)
        /\ \A i, j \in DOMAIN real :
              real[i].fragment_id = real[j].fragment_id => i = j
        /\ \A k \in DOMAIN encoded.fragments :
              LET f == encoded.fragments[k] IN
              (\/ SubSeq(f.domain, 1, Len(StrNoise)) = StrNoise
               \/ f.total_fragments = 0) => f.fragment_id = NoiseId

\* three real fragments and a noise fragment, returned in shuffled order
C5_Witness ==
    /\ Encoded /\ config.randomize_order
    /\ Len(RealFragments(encoded.fragments)) = 3
    /\ Len(Decoys(encoded.fragments)) >= 1
    /\ encoded.fragments[1].fragment_id = NoiseId

\* C6: MultiRecord and Distributed return at most max_fragments real
\* fragments, whatever max_fragments is, and when the payload needs more
\* they return exactly max_fragments, as a success.
C6_AtMostMaxFragments ==
    (s_pc = "encoded" /\ payload # <<>>
     /\ config.strategy \in {"MULTI_RECORD", "DISTRIBUTED"}) =>
        /\ encoded.ok
        /\ LET n == Len(RealFragments(encoded.fragments)) IN
           /\ n <= config.max_fragments
           /\ StartOf(n) < Len(Processed) => n = config.max_fragments

\* C7: MultiRecord gives real fragment i the type A, AAAA or TXT by i mod 3
\* and the next min(4, 16 or 200, remaining) payload bytes, starting at
\* offset 0 with no gap or overlap; below max_fragments the chunks cover the
\* payload; "CHIMERA" with max_fragments = 3 and no compression gives
\* exactly A "CHIM" and AAAA "ERA" plus 13 zero bytes.
C7_MultiRecordChunks ==
    (Encoded /\ config.strategy = "MULTI_RECORD") =>
        LET real == RealFragments(encoded.fragments)
            n == Len(real)
            data == Processed
        IN  /\ IdsOf(real) = 0..(n - 1)
            /\ \A i \in 0..(n - 1) :
                  LET f == WithId(real, i)
                      at == StartOf(i)
                      len == Min(Capacity(i), Len(data) - at)
                  IN  /\ at < Len(data)
                      /\ f.record_type = (CASE i % 3 = 0 -> TypeA
                                            [] i % 3 = 1 -> TypeAAAA
                                            [] OTHER -> TypeTXT)
                      /\ i % 3 # 2 =>
                            /\ Len(f.encoded_data) = Capacity(i)
                            /\ \A k \in 1..len :
                                  \/ f.encoded_data[k] = data[at + k]
                                  \/ len < Capacity(i) /\ k <= 2 /\ data[at + k] = 0
                      /\ i % 3 = 2 =>
                            decode_from_txt_fragments(<<f.encoded_data>>)
                                = [ok |-> TRUE, data |-> SubSeq(data, at + 1, at + len)]
            /\ n < config.max_fragments => StartOf(n) >= Len(data)
            /\ (payload = StrChimera /\ config.max_fragments = 3
                /\ ~config.use_compression) =>
                  /\ n = 2
                  /\ WithId(real, 0).record_type = TypeA
                  /\ WithId(real, 0).encoded_data = <<67, 72, 73, 77>>
                  /\ WithId(real, 1).record_type = TypeAAAA
                  /\ WithId(real, 1).encoded_data =
                        <<69, 82, 65>> \o [k \in 1..13 |-> 0]

\* a payload of 221 bytes was split into A, AAAA, a TXT of 200 bytes and A
C7_Witness ==
    /\ Encoded /\ config.strategy = "MULTI_RECORD" /\ ~config.use_compression
    /\ Len(payload) > 220
    /\ Len(RealFragments(encoded.fragments)) = 4

\* C8: for TxtOnly, MultiRecord and Distributed the returned list has, next
\* to its N real fragments, exactly floor(N * noise_ratio) decoys, each with
\* 32 bytes of data and the domains noise0.<base_domain>, noise1.<base_domain>, ...
C8_NoiseForEveryStrategy ==
    (Encoded /\ config.strategy \in FragmentStrategies) =>
        LET n == Len(RealFragments(encoded.fragments))
            decoys == Decoys(encoded.fragments)
            count == (n * config.noise_ratio.num) \div config.noise_ratio.den
        IN  /\ Len(decoys) = count
            /\ \A k \in DOMAIN decoys : Len(decoys[k].encoded_data) = 32
            /\ {decoys[k].domain : k \in DOMAIN decoys}
                  = {StrNoise \o Decimal(i) \o <<Dot>> \o base_domain :
                        i \in 0..(count - 1)}

\* the fragments of a list that decode_fragments is to use: not sentinel,
\* and with a checksum that is the CRC32 of the encoded_data
Usable(fragments) ==
    SelectSeq(fragments,
              LAMBDA f : /\ f.fragment_id # NoiseId
                         /\ f.checksum = calculate_checksum(f.encoded_data))

\* C9: decode_fragments returns DecodingError for the empty list only; for
\* any other list it succeeds, and its data before decompression is the
\* per-type decodings of the usable fragments, appended in ascending id
\* order; sentinel and checksum-failing fragments add nothing and raise
\* nothing.
C9_BestEffortDecode ==
    s_pc = "decoded" =>
        IF fragments_in = <<>>
        THEN decoded.kind = "error" /\ decoded.error = "DecodingError"
        ELSE /\ decoded.kind = "ok"
             /\ \E sorted \in SortsById(Usable(fragments_in)) :
                   decoded.reassembled =
                       Concat([i \in DOMAIN sorted |-> DecodeOne(sorted[i]).data])

\* C10: reconstruct_from_fragments returns data exactly when the list is
\* non-empty and its ids are 0..N-1, each once; otherwise it returns
\* FragmentationError and no data; the data is the encoded_data of the
\* fragments appended in ascending id order.
C10_AllOrNothing ==
    s_pc = "reconstructed" =>
        LET n == Len(fragments_in)
            complete == n > 0 /\ IdsOf(fragments_in) = 0..(n - 1)
        IN  /\ decoded.ok <=> complete
            /\ ~decoded.ok =>
                  decoded.error = "FragmentationError" /\ decoded.data = <<>>
            /\ decoded.ok =>
                  decoded.data =
                      Concat([i \in 1..n |-> WithId(fragments_in, i - 1).encoded_data])

\* two fragments handed over in the order id 1, id 0 were put back in order
C10_Witness ==
    /\ s_pc = "reconstructed" /\ decoded.ok
    /\ Len(fragments_in) = 2
    /\ fragments_in[1].fragment_id = 1 /\ fragments_in[2].fragment_id = 0
    /\ decoded.data = fragments_in[2].encoded_data \o fragments_in[1].encoded_data

\* some fragment of the list carries a checksum that is not the CRC32 of its
\* encoded_data
ChecksumMismatch(fragments) ==
    \E k \in DOMAIN fragments :
        ~verify_checksum(fragments[k].encoded_data, fragments[k].checksum)

\* C11: reconstruct_from_fragments on a list in which some fragment's
\* checksum does not match its encoded_data returns an error for the whole
\* list and no payload.
C11_MismatchFatal ==
    (s_pc = "reconstructed" /\ ChecksumMismatch(fragments_in)) => ~decoded.ok

\* C12: every TXT fragment that encode_payload returns for payload data has
\* an encoded_data (camouflage, hex id, '=', Base64 chunk) of at most 255
\* bytes, and its Base64 chunk has a length that is a multiple of 4 and at
\* most 200 characters.
C12_TxtFits ==
    Encoded =>
        \A k \in DOMAIN encoded.fragments :
            LET f == encoded.fragments[k]
                chunk == TxtBase64Part(f.encoded_data)
            IN  (f.record_type = TypeTXT /\ f.fragment_id # NoiseId) =>
                    /\ Len(f.encoded_data) <= 255
                    /\ Len(chunk) % 4 = 0
                    /\ Len(chunk) <= 200

\* the dot-separated labels of a name are at most 63 bytes each and the
\* name is at most 253 bytes
NameFits(name) ==
    /\ Len(name) <= 253
    /\ \A i \in 1..(Len(name) - 63) :
           \E j \in i..(i + 63) : name[j] = Dot

\* C13: when the base domain is accepted by validate_domain_name, every
\* fragment encode_payload returns, real or noise, has a domain whose labels
\* are at most 63 bytes each and whose length is at most 253 bytes.
C13_DomainsValid ==
    (Encoded /\ validate_domain_name(base_domain)) =>
        \A k \in DOMAIN encoded.fragments : NameFits(encoded.fragments[k].domain)

\* the bit positions in which two byte strings of the same length differ
DifferingBits(x, y) ==
    {<<i, b>> \in (DOMAIN x) \X (0..7) : (x[i] \div (2 ^ b)) % 2 # (y[i] \div (2 ^ b)) % 2}

\* "123456789", whose CRC32 (reflected polynomial 0xEDB88320, initial and
\* final XOR 0xFFFFFFFF) is 0xCBF43926
StrCheck == <<49, 50, 51, 52, 53, 54, 55, 56, 57>>

\* C14: verify_checksum holds for a real fragment as encode_payload returned
\* it and fails after any single bit of its encoded_data was inverted; the
\* checksum is the 4-byte CRC32 of the encoded_data.
C14_ChecksumSensitive ==
    /\ calculate_checksum(StrCheck) = <<38, 57, 244, 203>>
    /\ s_pc = "verified" =>
          LET g == fragments_in[1]
              f == WithId(encoded.fragments, g.fragment_id)
          IN  g.fragment_id # NoiseId =>
                  /\ f.checksum = calculate_checksum(f.encoded_data)
                  /\ Len(f.checksum) = 4
                  /\ decoded.ok <=> g.encoded_data = f.encoded_data

\* the top bit of the last byte of a TXT fragment was inverted and the
\* checksum no longer matches
C14_Witness ==
    /\ s_pc = "verified" /\ ~decoded.ok
    /\ fragments_in[1].record_type = TypeTXT
    /\ LET g == fragments_in[1]
           f == WithId(encoded.fragments, g.fragment_id)
       IN  DifferingBits(g.encoded_data, f.encoded_data) = {<<Len(f.encoded_data), 7>>}

\* C15: two threads that call build_query, encode_payload or
\* decode_fragments at the same time are never both accessing one mutable
\* variable with one of them writing it: no thread writes the state of a
\* random-number generator while another thread reads or writes it.
C15_NoSharedState ==
    threads # <<>> =>
        \A t \in Threads : \A u \in Threads \ {t} :
            ~(threads[t].pc = "gen_store" /\ InStaticDraw(u))

\* decompress_payload did not get a payload out of the reassembled bytes
DecompressFailed(data) == ~zlib.inflate_ok \/ ~Inflate(data).ok

\* C16: encode_payload of a non-empty payload under a fragment strategy
\* returns fragments whether or not compression works, and when compression
\* fails they are the fragments of the original payload; decode_fragments
\* returns an error only for an empty list, and when decompression of the
\* reassembled bytes fails it returns those bytes as its data.
C16_CompressionNeverFails ==
    /\ (s_pc = "encoded" /\ payload # <<>> /\ config.strategy \in FragmentStrategies) =>
          /\ encoded.ok
          /\ (config.use_compression /\ ~zlib.deflate_ok) =>
                \E seed \in Seeds :
                    encoded \in encode_payload(payload, base_domain,
                                               [config EXCEPT !.use_compression = FALSE],
                                               seed)
    /\ s_pc = "decoded" =>
          /\ decoded.kind = "error" => fragments_in = <<>>
          /\ (decoded.kind = "ok" /\ config.use_compression
              /\ DecompressFailed(decoded.reassembled)) =>
                 decoded.data = decoded.reassembled

\* deflateInit failed, the fragments of the uncompressed payload came back,
\* and decode_fragments, whose decompression of them failed, returned the
\* payload
C16_Witness ==
    /\ s_pc = "decoded" /\ config.use_compression /\ ~zlib.deflate_ok
    /\ payload # <<>> /\ encoded.ok /\ Len(encoded.fragments) > 0
    /\ decoded.kind = "ok" /\ DecompressFailed(decoded.reassembled)
    /\ decoded.data = payload

\* the RFC 1035 label sequence of a name: for each non-empty dot-separated
\* label its length and its bytes, then a zero byte
RECURSIVE LabelSequence(_)
LabelSequence(name) ==
    IF name = <<>> THEN <<0>>
    ELSE LET dots == {i \in DOMAIN name : name[i] = Dot}
             d == IF dots = {} THEN Len(name) + 1 ELSE SetMin(dots)
             label == SubSeq(name, 1, d - 1)
         IN  (IF label = <<>> THEN <<>> ELSE <<Len(label)>> \o label)
             \o LabelSequence(SubSeq(name, d + 1, Len(name)))

\* C17: build_query returns the 12-byte header (the id, flags 0x0100,
\* QDCOUNT 1, the other counts 0), the label-encoded QNAME, QTYPE and QCLASS
\* big-endian, and then one length byte and the payload exactly when the
\* payload is non-empty and the type is TXT; with labels of at most 63
\* bytes the call fails exactly when the type is TXT and the payload is
\* longer than 255 bytes.
C17_QueryFormat ==
    (call # <<>> /\ call.fn = "build_query" /\ ret.returned) =>
        LET r == ret.value
            q == call.q
            carried == call.payload # <<>> /\ q.type = TypeTXT
        IN  /\ NameFits(q.name) => (r.ok <=> ~(carried /\ Len(call.payload) > 255))
            /\ r.ok =>
                  r.packet =
                      <<call.id \div 256, call.id % 256, 1, 0, 0, 1, 0, 0, 0, 0, 0, 0>>
                      \o LabelSequence(q.name)
                      \o <<q.type \div 256, q.type % 256, q.cls \div 256, q.cls % 256>>
                      \o (IF carried THEN <<Len(call.payload)>> \o call.payload
                          ELSE <<>>)

\* the TXT query for "test.example.com" with a 7-byte payload came back as
\* 12 + 18 + 4 + 8 bytes
C17_Witness ==
    /\ call # <<>> /\ call.fn = "build_query" /\ ret.returned
    /\ call.q.name = StrTestExampleCom /\ call.q.type = TypeTXT
    /\ call.payload = StrChimera
    /\ ret.value.ok /\ Len(ret.value.packet) = 42

\* the characters of a label: letters, digits, '-' and '_'
LabelChars == (48..57) \cup (65..90) \cup (97..122) \cup {45, 95}

\* a name that is non-empty, at most 253 bytes long, and whose
\* dot-separated labels (the possibly empty stretches before, between and
\* after its dots) each have 1..63 characters out of LabelChars
WellFormedName(d) ==
    /\ d # <<>> /\ Len(d) <= 253
    /\ d[1] # Dot /\ d[Len(d)] # Dot
    /\ \A i \in 1..(Len(d) - 1) : ~(d[i] = Dot /\ d[i + 1] = Dot)
    /\ \A i \in 1..(Len(d) - 63) : \E j \in i..(i + 63) : d[j] = Dot
    /\ \A i \in DOMAIN d : d[i] = Dot \/ d[i] \in LabelChars

\* C18: validate_domain_name(d) is true exactly when d is non-empty, at
\* most 253 bytes long and each of its dot-separated labels has 1..63
\* characters, all of them letters, digits, '-' or '_'; a name with an empty
\* label is rejected.
C18_ValidateExact ==
    (call # <<>> /\ call.fn = "validate_domain_name" /\ ret.returned) =>
        (ret.value <=> WellFormedName(call.domain))

\* C19: estimate_capacity(A, n) = 4n, (AAAA, n) = 16n, (TXT, n) = 200n and 0
\* for every other record type; estimate_total_capacity is 200 times
\* max_fragments for TXT_ONLY and 4k + 16k + 200k, k the whole part of
\* max_fragments / 3, for MULTI_RECORD and DISTRIBUTED.
C19_CapacityFormulas ==
    /\ (call # <<>> /\ call.fn = "estimate_capacity" /\ ret.returned) =>
          LET n == call.max_fragments IN
          /\ call.record_type = TypeA => ret.value = 4 * n
          /\ call.record_type = TypeAAAA => ret.value = 16 * n
          /\ call.record_type = TypeTXT => ret.value = 200 * n
          /\ call.record_type \notin {TypeA, TypeAAAA, TypeTXT} => ret.value = 0
    /\ (call # <<>> /\ call.fn = "estimate_total_capacity" /\ ret.returned) =>
          LET m == call.cfg.max_fragments
              k == CHOOSE j \in 0..m : 3 * j <= m /\ m < 3 * (j + 1)
          IN  /\ call.cfg.strategy = "TXT_ONLY" => ret.value = 200 * m
              /\ call.cfg.strategy \in {"MULTI_RECORD", "DISTRIBUTED"} =>
                    ret.value = 4 * k + 16 * k + 200 * k

\* estimate_total_capacity for MULTI_RECORD with 5 fragments returned 220
C19_Witness ==
    /\ call # <<>> /\ call.fn = "estimate_total_capacity" /\ ret.returned
    /\ call.cfg.strategy = "MULTI_RECORD" /\ call.cfg.max_fragments = 5
    /\ ret.value = 220

\* C20: ChimeraClient::estimate_capacity() of a client configured with
\* max_fragments > 0 is greater than 0, and below 10000 for the fragment
\* budgets up to the default of 10, under MULTI_RECORD as under the other
\* strategies.
C20_CapacityPositive ==
    (call # <<>> /\ call.fn = "ChimeraClient::estimate_capacity" /\ ret.returned
     /\ call.config_.max_fragments > 0) =>
        /\ ret.value > 0
        /\ call.config_.max_fragments <= DefaultMaxFragments => ret.value < 10000

\* C21: Base64::decode(Base64::encode(s)) = s for every byte string s; the
\* encoded text has 4 * ceil(Len(s) / 3) characters, of which only the last
\* 3 * ceil(Len(s) / 3) - Len(s) are '='; "A" gives "QQ==", "AB" gives
\* "QUI=", "ABC" gives "QUJD" and the empty string gives the empty string.
C21_Base64RoundTrip ==
    (call # <<>> /\ call.fn = "Base64" /\ ret.returned) =>
        LET s == call.in
            e == ret.value.encoded
            groups == (Len(s) + 2) \div 3
            pads == 3 * groups - Len(s)
        IN  /\ ret.value.decoded.ok /\ ret.value.decoded.data = s
            /\ Len(e) = 4 * groups
            /\ \A i \in DOMAIN e : e[i] = EqualsSign <=> i > Len(e) - pads
            /\ s = <<>> => e = <<>>
            /\ s = <<65>> => e = <<81, 81, 61, 61>>
            /\ s = <<65, 66>> => e = <<81, 85, 73, 61>>
            /\ s = <<65, 66, 67>> => e = <<81, 85, 74, 68>>

\* the two bytes FF FF were encoded as "//8=" and decoded back
C21_Witness ==
    /\ call # <<>> /\ call.fn = "Base64" /\ ret.returned
    /\ call.in = <<255, 255>>
    /\ ret.value.encoded = <<47, 47, 56, 61>>
    /\ ret.value.decoded.data = <<255, 255>>

\* the labels of the name stored at offset `at` of a message: the labels
\* up to a zero byte, and where a pointer stands the labels of the name at
\* its 14-bit target; at most `fuel` pointers are followed
RECURSIVE LabelsAt(_, _, _)
LabelsAt(data, at, fuel) ==
    LET len == ByteAt(data, at) IN
    IF len = 0 THEN <<>>
    ELSE IF len >= 192
         THEN IF fuel = 0 THEN <<>>
              ELSE LabelsAt(data, (len - 192) * 256 + ByteAt(data, at + 1), fuel - 1)
         ELSE <<Bytes(data, at + 1, len)>> \o LabelsAt(data, at + 1 + len, fuel)

\* labels joined by dots
RECURSIVE JoinDots(_)
JoinDots(labels) ==
    IF labels = <<>> THEN <<>>
    ELSE IF Len(labels) = 1 THEN labels[1]
    ELSE labels[1] \o <<Dot>> \o JoinDots(Tail(labels))

\* the bytes the name at offset `at` occupies in place: up to and including
\* its zero byte, or up to and including the 2 bytes of its first pointer
RECURSIVE WireLength(_, _)
WireLength(data, at) ==
    LET len == ByteAt(data, at) IN
    IF len = 0 THEN 1
    ELSE IF len >= 192 THEN 2
    ELSE 1 + len + WireLength(data, at + 1 + len)

\* C22: when read_domain_name has returned, the name is the labels before
\* the first pointer followed by the labels at the pointer's target, and
\* the caller has advanced by the distance from the name's start to 2 bytes
\* past the first pointer, or to just past the zero byte of a name without
\* pointer, whatever jumps followed (a question's type and class are
\* skipped as well).
C22_PointerResolution ==
    LET start == rdn.original_offset
        name == JoinDots(LabelsAt(response, start, max_jumps))
        used == WireLength(response, start)
    IN  /\ p_pc = "a_fields" => (rdn.out_name = name /\ offset = start + used)
        /\ (p_pc = "questions" /\ q_i > 0) =>
              (rdn.out_name = name /\ offset = start + used + 4)

\* the owner name "b" followed by a pointer to the question name "a" was
\* read as "b.a" and took 4 bytes
C22_Witness ==
    /\ p_pc = "a_fields" /\ rdn.jumped
    /\ rdn.out_name = <<98, 46, 97>>
    /\ offset = rdn.original_offset + 4

\* C23: every byte encode_to_ipv4 / encode_to_ipv6 takes from the payload
\* is in the address unchanged (address[i] = payload[offset + i] for every i
\* below the carrier size with offset + i inside the payload), so the
\* decoder, which returns the address, has the carried chunk in its first
\* bytes.
C23_PayloadBytesKept ==
    (call # <<>> /\ call.fn \in {"encode_to_ipv4", "encode_to_ipv6"} /\ ret.returned) =>
        LET size == IF call.fn = "encode_to_ipv4" THEN 4 ELSE 16
            carried == Min(size, Len(call.payload) - call.offset)
        IN  /\ Len(ret.value.address) = size
            /\ \A i \in 0..(size - 1) :
                  call.offset + i < Len(call.payload) =>
                      ret.value.address[i + 1] = call.payload[call.offset + i + 1]
            /\ SubSeq(ret.value.decoded, 1, carried)
                  = SubSeq(call.payload, call.offset + 1, call.offset + carried)

\* the two lists hold the same fragments the same number of times
SameFragments(a, b) ==
    /\ Len(a) = Len(b)
    /\ \A i \in DOMAIN a :
          Cardinality({j \in DOMAIN a : a[j] = a[i]})
              = Cardinality({j \in DOMAIN b : b[j] = a[i]})

\* C24: order randomization only permutes. A list encoded with
\* randomize_order = true holds exactly the fragments (id, type, domain,
\* data, checksum) of a list encoded with randomize_order = false, and
\* decode_fragments gives for it the outcome and data it gives for that
\* list; and decode_fragments returns the same outcome and data for every
\* reordering of a list encoded with randomize_order = false.
C24_RandomizeOnlyPermutes ==
    /\ (s_pc \in {"encoded", "decoded"} /\ encoded.ok /\ config.randomize_order) =>
          \E seed \in Seeds :
             \E plain \in encode_payload(payload, base_domain,
                                         [config EXCEPT !.randomize_order = FALSE],
                                         seed) :
                /\ plain.ok /\ SameFragments(encoded.fragments, plain.fragments)
                /\ s_pc = "decoded" =>
                      \A r \in decode_fragments(plain.fragments, config) :
                         r.kind = decoded.kind /\ r.data = decoded.data
    /\ (s_pc = "decoded" /\ encoded.ok /\ ~config.randomize_order) =>
          \A reordered \in Shuffles(fragments_in) :
             \A r \in decode_fragments(reordered, config) :
                r.kind = decoded.kind /\ r.data = decoded.data

\* a shuffled list of several real fragments, not in id order, was decoded
\* to the payload
C24_Witness ==
    /\ s_pc = "decoded" /\ encoded # NoResult /\ config.randomize_order
    /\ Len(RealFragments(fragments_in)) >= 3
    /\ fragments_in[1].fragment_id \notin {0, NoiseId}
    /\ decoded.kind = "ok" /\ decoded.data = payload

\* the fragments of one record type, in list order
OfType(fragments, t) == SelectSeq(fragments, LAMBDA f : f.record_type = t)

RECURSIVE DotSeparated(_)
DotSeparated(name) ==
    LET dots == {i \in DOMAIN name : name[i] = Dot} IN
    IF dots = {} THEN <<name>>
    ELSE <<SubSeq(name, 1, SetMin(dots) - 1)>>
         \o DotSeparated(SubSeq(name, SetMin(dots) + 1, Len(name)))

NonEmptyLabels(name) == SelectSeq(DotSeparated(name), LAMBDA l : l # <<>>)

\* C27: write_domain_name emits one length byte and the label bytes for
\* each non-empty dot-separated label and then a zero byte (an empty name
\* is a single zero byte); with a label of more than 63 bytes it throws and
\* build_query returns no packet; read_domain_name on the emitted bytes
\* returns the name with its empty labels removed and the number of bytes
\* emitted.
C27_NameRoundTrip ==
    (call # <<>> /\ call.fn = "write_domain_name" /\ ret.returned) =>
        LET labels == NonEmptyLabels(call.name)
            emitted == Concat([k \in DOMAIN labels |-> <<Len(labels[k])>> \o labels[k]])
                       \o <<0>>
            too_long == \E k \in DOMAIN labels : Len(labels[k]) > 63
        IN  /\ ret.value.written.ok = ~too_long
            /\ ret.value.query.ok = ~too_long
            /\ too_long => ret.value.query.packet = <<>>
            /\ ~too_long =>
                  /\ ret.value.written.packet = emitted
                  /\ SubSeq(ret.value.query.packet, 13, 12 + Len(emitted)) = emitted
                  /\ ret.value.read.kind = "break"
                  /\ ret.value.read.out_name = JoinDots(labels)
                  /\ ret.value.read.consumed = Len(emitted)

\* "a..b" was written as 1 'a' 1 'b' 0 and read back as "a.b" with 5
\* bytes consumed
C27_Witness ==
    /\ call # <<>> /\ call.fn = "write_domain_name" /\ ret.returned
    /\ call.name = <<97, Dot, Dot, 98>>
    /\ ret.value.written.packet = <<1, 97, 1, 98, 0>>
    /\ ret.value.read.out_name = <<97, Dot, 98>>
    /\ ret.value.read.consumed = 5

\* the number a string of hex digits denotes
RECURSIVE HexValue(_)
HexValue(digits) ==
    IF digits = <<>> THEN 0
    ELSE LET c == digits[Len(digits)] IN
         16 * HexValue(SubSeq(digits, 1, Len(digits) - 1))
         + (IF c <= 57 THEN c - 48 ELSE c - 87)

\* name is prefix + lowercase hex(id), without leading zeros
IsSubdomainOf(name, id, type) ==
    LET prefix == CASE type = TypeA -> <<119, 119, 119>>
                    [] type = TypeAAAA -> <<105, 112, 118, 54, 45>>
                    [] type = TypeTXT -> <<109, 97, 105, 108>>
                    [] OTHER -> <<115, 114, 118>>
        digits == SubSeq(name, Len(prefix) + 1, Len(name))
    IN  /\ Len(name) > Len(prefix)
        /\ SubSeq(name, 1, Len(prefix)) = prefix
        /\ \A k \in DOMAIN digits : digits[k] \in (48..57) \cup (97..102)
        /\ Len(digits) = 1 \/ digits[1] # 48
        /\ HexValue(digits) = id

\* the (id, domain) pairs of the real fragments of a list
RealDomains(fragments) ==
    {<<fragments[i].fragment_id, fragments[i].domain>> :
        i \in {j \in DOMAIN fragments : fragments[j].fragment_id # NoiseId}}

\* C28: subdomain naming is a function of (fragment_id, record_type,
\* base_domain). generate_steganographic_subdomain returns "www", "ipv6-",
\* "mail" or (for any other type) "srv" followed by the id in lowercase
\* hex; every real fragment's domain is that name, a dot and the base
\* domain; every encoding of the same inputs gives the same domains to the
\* same ids; and two real fragments of one encoding never share a domain.
C28_SubdomainNaming ==
    /\ s_pc = "named" =>
          IsSubdomainOf(decoded.data, fragments_in[1].fragment_id,
                        fragments_in[1].record_type)
    /\ Encoded =>
          /\ \A i \in DOMAIN encoded.fragments :
                LET f == encoded.fragments[i] IN
                f.fragment_id # NoiseId =>
                   /\ Len(f.domain) > Len(base_domain) + 1
                   /\ SubSeq(f.domain, Len(f.domain) - Len(base_domain), Len(f.domain))
                         = <<Dot>> \o base_domain
                   /\ IsSubdomainOf(SubSeq(f.domain, 1,
                                           Len(f.domain) - Len(base_domain) - 1),
                                    f.fragment_id, f.record_type)
                   /\ \A j \in DOMAIN encoded.fragments :
                         (j # i /\ encoded.fragments[j].fragment_id # NoiseId) =>
                            encoded.fragments[j].domain # f.domain
          /\ \A seed \in Seeds :
                \A other \in encode_payload(payload, base_domain, config, seed) :
                   other.ok /\ RealDomains(other.fragments)
                                  = RealDomains(encoded.fragments)

\* a shuffled encoding under "a.b" whose real fragments are named
\* "www0.a.b", "ipv6-1.a.b", "mail2.a.b" and "www3.a.b"
C28_Witness ==
    /\ Encoded /\ config.randomize_order /\ base_domain = ShortDomain
    /\ {p[2] : p \in RealDomains(encoded.fragments)}
          = {<<119, 119, 119, 48, 46, 97, 46, 98>>,
             <<105, 112, 118, 54, 45, 49, 46, 97, 46, 98>>,
             <<109, 97, 105, 108, 50, 46, 97, 46, 98>>,
             <<119, 119, 119, 51, 46, 97, 46, 98>>}

\* id 171 of a CNAME record was named "srvab"
C28_NamedInHex ==
    /\ s_pc = "named" /\ fragments_in[1].fragment_id = 171
    /\ fragments_in[1].record_type = TypeCNAME
    /\ decoded.data = <<115, 114, 118, 97, 98>>

\* the number of fragments of the A / AAAA / TXT cycle that n payload bytes
\* fill or start
FragmentsNeeded(n) == SetMin({k \in 0..(n + 1) : StartOf(k) >= n})

\* C29: the capacity estimate is a safe lower bound. For MULTI_RECORD and
\* DISTRIBUTED without compression, a non-empty payload of at most
\* estimate_total_capacity(config) bytes is encoded completely: the real
\* fragments are as many as the payload needs, so their chunks reach its
\* last byte and max_fragments has cut nothing off.
C29_EstimateIsSafe ==
    (/\ Encoded /\ config.strategy \in {"MULTI_RECORD", "DISTRIBUTED"}
     /\ ~config.use_compression
     /\ Len(payload) <= estimate_total_capacity(config)) =>
        LET real == RealFragments(encoded.fragments) IN
        /\ Len(real) = FragmentsNeeded(Len(payload))
        /\ Len(real) <= config.max_fragments
        /\ IdsOf(real) = 0..(Len(real) - 1)

\* a payload of exactly the 220 bytes estimated for max_fragments = 3 was
\* encoded in 3 fragments
C29_Witness ==
    /\ Encoded /\ config.strategy = "MULTI_RECORD" /\ ~config.use_compression
    /\ config.max_fragments = 3
    /\ estimate_total_capacity(config) = 220 /\ Len(payload) = 220
    /\ Len(RealFragments(encoded.fragments)) = 3

\* the callback of request r has been invoked
Delivered(r) == requests[r].results # <<>>

\* background processing was started and is stopped, or has not been started
Stopped == processor.kind = "worker" /\ ~running_

\* the callback of no request has been invoked twice, and a request that had
\* timed out when it was dequeued got Timeout and its transport was not used
DeliveredAtMostOnce ==
    \A r \in Requests :
       /\ Len(requests[r].results) <= 1
       /\ requests[r].timed_out =>
             ~requests[r].transport_used /\ requests[r].results = <<"Timeout">>

\* C30: AsyncIOManager delivers each request's result exactly once. The
\* callback of a request is never invoked more than once; a request whose
\* timeout has elapsed when it is dequeued gets Timeout and its transport
\* is not used; and while background processing is running, or
\* process_events keeps being called, every request that submit_request
\* has queued eventually has its callback invoked.
C30_ExactlyOnce ==
    /\ []DeliveredAtMostOnce
    /\ \A r \in Requests :
          (requests[r].pc = "queued") ~> (Delivered(r) \/ Stopped)

\* the same for callbacks that return
C30_ExactlyOnceIfCallbacksReturn ==
    (\A r \in Requests : requests[r].callback = "returns") => C30_ExactlyOnce

\* a callback has been invoked a second time, from the catch block of
\* process_single_request
C30_InvokedTwice ==
    \E r \in Requests :
       Len(requests[r].results) = 2 /\ requests[r].results[2] = "SendFailed"

=============================================================================
